---- MODULE Spec2Model ----
(***************************************************************************)
(* CareLock-Sync: the change log fed by the capture trigger, the           *)
(* incremental and full sync of the hospital database into the shared      *)
(* FHIR database, the periodic driver and the sync entry points.           *)
(*                                                                         *)
(* A source row is modelled by the two columns the sync code reads: its    *)
(* primary key and its patient_id column (for table patients the two are   *)
(* the same column).  A target row is modelled by its conflict key         *)
(* (tenant_id, source id) and, for an encounter, the patient it references.*)
(***************************************************************************)
EXTENDS Integers, Sequences, FiniteSets, TLC

\* ------------------------------------------------------------------ bounds
MaxPatients == 2
MaxEncounters == 2
MaxEvents == 1
MaxCaptured == 2
MaxFaults == 1
SeqStart == 4
MaxRuns == 1
MaxSchedRuns == 2
MaxSchedEvents == 1
MaxApiRuns == 2
MaxSetups == 2
MaxSetupEvents == 1
MaxLimit == 2
MaxTargetEvents == 2
MaxFullRuns == 2
MaxFullEvents == 1
MaxPad == 1
MaxErrorSteps == 2
MaxBatch == 2
MaxLimitRuns == 2
MaxLimitEvents == 1
MaxIndex == 2
MaxWrites == 2
MaxTenantSteps == 2
MaxDriverRuns == 2
MaxDriverEvents == 2
MaxHistoryRuns == 11
MaxLiveRuns == 3
MaxLiveEvents == 1
MaxLiveFailures == 1

\* len(sync_state['sync_history']) > 10
HistoryLimit == 10

\* Python's None for an Optional[int]; the integers modelled are >= 0
None == -1

Tables == {"patients", "encounters", "lab_results", "medications"}
Operations == {"INSERT", "UPDATE", "DELETE"}
Txns == {"t1", "t2"}
SchedulerTenant == 1

PatientIds == 1..MaxPatients

Ids(tbl) ==
    IF tbl = "patients" THEN PatientIds
    ELSE IF tbl = "encounters" THEN 1..MaxEncounters
    ELSE {1}

VARIABLES
    hospital,          \* hospital_db: table -> primary key -> patient_id (0: no row)
    seq,               \* last value of the sequence behind change_id SERIAL
    data_change_log,   \* committed rows of data_change_log
    tx,                \* open hospital_db transactions
    triggers,          \* hospital_db: table -> names of the triggers on it
    setup_calls,       \* how many times add_trigger_to_table ran for each table
    fhir_patient,      \* shared_db: rows of fhir_patient
    fhir_encounter,    \* shared_db: rows of fhir_encounter
    last_sync_id,      \* SyncScheduler.last_sync_id
    sched_stats,       \* SyncScheduler.stats
    is_running,        \* SyncScheduler.is_running
    thread,            \* the _run_sync call in progress on each scheduler thread
    sync_state,        \* routes/sync.py: the module-level dict sync_state
    caller,            \* the trigger call in progress for each caller, and its last response
    clock,             \* datetime.utcnow(), in seconds
    result,            \* what the last sync_incremental call read and returned
    full,              \* what the last direct sync_all call was given and returned
    mapping,           \* FHIRMapper.map_record: the record given and the resource built
    transform,         \* a DataTransformer method called: its name, argument and return value
    nested             \* FHIRMapper.set_nested_value: the document, path and value given, and the document after

capturevars == <<triggers, setup_calls>>
datavars == <<hospital, seq, data_change_log, tx, capturevars>>
targetvars == <<fhir_patient, fhir_encounter>>
schedvars == <<last_sync_id, sched_stats, is_running, thread>>
apivars == <<sync_state, caller, clock>>
vars == <<hospital, seq, data_change_log, tx, triggers, setup_calls, fhir_patient, fhir_encounter,
          last_sync_id, sched_stats, is_running, thread, sync_state, caller,
          clock, result, full, mapping, transform, nested>>

\* ------------------------------------------------------------ small helpers
Max(S) == CHOOSE x \in S : \A y \in S : y <= x
Min(S) == CHOOSE x \in S : \A y \in S : x <= y

RECURSIVE SumOver(_, _)
SumOver(f, D) ==
    IF D = {} THEN 0
    ELSE LET d == CHOOSE x \in D : TRUE IN f[d] + SumOver(f, D \ {d})

\* --------------------------------------------------------- hospital_db rows
NoRow == [pk |-> 0, patient_id |-> 0]

Row(tbl, i) == [pk |-> i, patient_id |-> hospital[tbl][i]]

RowExists(h, tbl, i) == i \in DOMAIN h[tbl] /\ h[tbl][i] # 0

\* ------------------------------------------------- capture trigger function
\* log_table_changes(): one data_change_log row per mutated row; change_id
\* is the column default nextval(), taken when the trigger's INSERT runs.
log_table_changes(tg_table_name, tg_op, old, new, change_id) ==
    LET record_id_value == IF tg_op = "DELETE" THEN old.patient_id
                           ELSE new.patient_id
    IN [change_id  |-> change_id,
        table_name |-> tg_table_name,
        operation  |-> tg_op,
        record_id  |-> record_id_value,
        old_data   |-> IF tg_op = "INSERT" THEN NoRow ELSE old,
        new_data   |-> IF tg_op = "DELETE" THEN NoRow ELSE new]

\* the row triggers of a table each run log_table_changes() once for the
\* mutated row, one nextval() each
FireTriggers(names, tg_table_name, tg_op, old, new, last_value) ==
    {log_table_changes(tg_table_name, tg_op, old, new, last_value + k) :
        k \in 1..Cardinality(names)}

NoTx == [active |-> FALSE, table |-> "patients", op |-> "INSERT", pk |-> 0,
         patient_id |-> 0, events |-> {}]

\* rows another open transaction has written and not yet committed
Locked(tbl, i) == \E t \in Txns : tx[t].active /\ tx[t].table = tbl /\ tx[t].pk = i

\* patient p is referenced by a committed child row or by an open child write
Referenced(p) ==
    \/ \E tbl \in Tables \ {"patients"} : \E i \in Ids(tbl) : hospital[tbl][i] = p
    \/ \E t \in Txns : tx[t].active /\ tx[t].table # "patients"
                       /\ tx[t].op # "DELETE" /\ tx[t].patient_id = p

\* patient p can be referenced by a new child row: it is committed and no
\* open transaction is deleting it
Referable(p) ==
    /\ hospital["patients"][p] # 0
    /\ ~ \E t \in Txns : tx[t].active /\ tx[t].table = "patients"
                         /\ tx[t].op = "DELETE" /\ tx[t].pk = p

\* A transaction mutates one row of a monitored table; the AFTER ... FOR EACH
\* ROW trigger writes the event inside the same transaction.
Mutate(t, tbl, op, i, p) ==
    /\ ~ tx[t].active
    /\ ~ Locked(tbl, i)
    /\ tbl = "patients" => p = i
    /\ CASE op = "INSERT" -> hospital[tbl][i] = 0 /\ (tbl # "patients" => Referable(p))
         [] op = "UPDATE" -> hospital[tbl][i] # 0 /\ (tbl # "patients" => Referable(p))
         [] op = "DELETE" -> /\ hospital[tbl][i] # 0
                             /\ p = hospital[tbl][i]
                             /\ tbl = "patients" => ~ Referenced(i)
    /\ LET old == IF op = "INSERT" THEN NoRow ELSE Row(tbl, i)
           new == IF op = "DELETE" THEN NoRow ELSE [pk |-> i, patient_id |-> p]
       IN tx' = [tx EXCEPT ![t] = [active |-> TRUE, table |-> tbl, op |-> op,
                                   pk |-> i, patient_id |-> p,
                                   events |-> FireTriggers(triggers[tbl], tbl, op,
                                                           old, new, seq)]]
    /\ seq' = seq + Cardinality(triggers[tbl])
    /\ UNCHANGED <<apivars, hospital, data_change_log, capturevars, targetvars,
                   schedvars, result, full, mapping, transform, nested>>

Commit(t) ==
    /\ tx[t].active
    /\ hospital' = [hospital EXCEPT ![tx[t].table][tx[t].pk] =
                        IF tx[t].op = "DELETE" THEN 0 ELSE tx[t].patient_id]
    /\ data_change_log' = data_change_log \cup tx[t].events
    /\ tx' = [tx EXCEPT ![t] = NoTx]
    /\ UNCHANGED <<apivars, seq, capturevars, targetvars, schedvars, result, full, mapping, transform, nested>>

\* a statement outside an explicit transaction: trigger and mutation commit
\* together at once
Autocommit(t, tbl, op, i, p) ==
    /\ ~ tx[t].active
    /\ ~ Locked(tbl, i)
    /\ tbl = "patients" => p = i
    /\ CASE op = "INSERT" -> hospital[tbl][i] = 0 /\ (tbl # "patients" => Referable(p))
         [] op = "UPDATE" -> hospital[tbl][i] # 0 /\ (tbl # "patients" => Referable(p))
         [] op = "DELETE" -> /\ hospital[tbl][i] # 0
                             /\ p = hospital[tbl][i]
                             /\ tbl = "patients" => ~ Referenced(i)
    /\ LET old == IF op = "INSERT" THEN NoRow ELSE Row(tbl, i)
           new == IF op = "DELETE" THEN NoRow ELSE [pk |-> i, patient_id |-> p]
       IN data_change_log' = data_change_log
                \cup FireTriggers(triggers[tbl], tbl, op, old, new, seq)
    /\ hospital' = [hospital EXCEPT ![tbl][i] = IF op = "DELETE" THEN 0 ELSE p]
    /\ seq' = seq + Cardinality(triggers[tbl])
    /\ UNCHANGED <<apivars, tx, capturevars, targetvars, schedvars, result, full, mapping, transform, nested>>

\* the events written through a connection of their own, outside the transaction
RollbackKeepsEvents(t) ==
    /\ tx[t].active
    /\ tx' = [tx EXCEPT ![t] = NoTx]
    /\ data_change_log' = data_change_log \cup tx[t].events
    /\ UNCHANGED <<apivars, hospital, seq, capturevars, targetvars, schedvars, result, full, mapping, transform, nested>>

\* the trigger's INSERT into data_change_log is part of the transaction
Rollback(t) ==
    /\ tx[t].active
    /\ tx' = [tx EXCEPT ![t] = NoTx]
    /\ UNCHANGED <<apivars, hospital, seq, data_change_log, capturevars, targetvars,
                   schedvars, result, full, mapping, transform, nested>>

\* ------------------------------------------------------------ capture setup
\* f"{table_name}_change_trigger"
TriggerName(table_name) == <<table_name, "_change_trigger">>

\* CREATE TABLE IF NOT EXISTS data_change_log: an existing table and its rows
\* are left as they are
create_change_log_table(log) == log

\* CREATE TRIGGER under a name of its own at every call, nothing dropped
add_trigger_numbered(names, table_name, calls) ==
    names \cup {<<table_name, "_change_trigger", calls>>}

\* DROP TRIGGER IF EXISTS name ON table; CREATE TRIGGER name ...
add_trigger_to_table(names, table_name, calls) ==
    (names \ {TriggerName(table_name)}) \cup {TriggerName(table_name)}

\* DROP TRIGGER and CREATE TRIGGER lock the table: they wait for the open
\* transactions that have written to it
setup_cdc_for_tables(table_names) ==
    /\ \A tbl \in table_names : setup_calls[tbl] < MaxSetups
    /\ ~ \E t \in Txns : tx[t].active /\ tx[t].table \in table_names
    /\ data_change_log' = create_change_log_table(data_change_log)
    /\ triggers' = [tbl \in Tables |->
                       IF tbl \in table_names
                       THEN add_trigger_to_table(triggers[tbl], tbl, setup_calls[tbl])
                       ELSE triggers[tbl]]
    /\ setup_calls' = [tbl \in Tables |->
                          IF tbl \in table_names THEN setup_calls[tbl] + 1
                          ELSE setup_calls[tbl]]
    /\ UNCHANGED <<apivars, hospital, seq, tx, targetvars, schedvars, result, full, mapping, transform, nested>>

\* ------------------------------------------------------------- the mapping
\* str(id) / DataTransformer.to_string: the decimal string of an integer
to_string(v) == <<"str", v>>

\* DataTransformer.patient_reference: f"Patient/{patient_id}"
patient_reference(v) == <<"Patient", "/", v>>

\* subject_ref.split('/')[-1] if '/' in subject_ref else None
ReferenceId(ref) == IF ref[2] = "/" THEN to_string(ref[3]) ELSE to_string(None)

map_patient_to_fhir(row) ==
    [resourceType |-> "Patient", id |-> to_string(row.pk)]

map_encounter_to_fhir(row) ==
    [resourceType |-> "Encounter", id |-> to_string(row.pk),
     subject |-> patient_reference(row.patient_id)]

\* ------------------------------------------------------- the mapping engine
\* A document (nested dicts and lists) is the set of its nodes; a node is
\* [path, kind, value] with kind "dict", "list", "none" (a None list element)
\* or "value".  A path is a sequence of parts as re.findall(r'(\w+)|\[(\d+)\]')
\* returns them: (key, '') for a key, ('', index) for an index.
Null == "None"
NoTransformation == ""

KeyPart(key) == [key |-> key, index |-> None]
IndexPart(index) == [key |-> "", index |-> index]

\* a source value, or the result of a transformation, as [t, v]: v is the
\* source value and t the transformation applied to it
Value(t, v) == [t |-> t, v |-> v]
NullValue == Value(NoTransformation, Null)

Node(path, kind, value) == [path |-> path, kind |-> kind, value |-> value]

\* MappingConfig.PATIENT_MAPPING, field_mappings in their order
PATIENT_MAPPING ==
    << [source_field |-> "patient_id", transformation |-> "to_string",
        target_path |-> <<KeyPart("id")>>],
       [source_field |-> "medical_record_number", transformation |-> NoTransformation,
        target_path |-> <<KeyPart("identifier"), IndexPart(0), KeyPart("value")>>],
       [source_field |-> "first_name", transformation |-> NoTransformation,
        target_path |-> <<KeyPart("name"), IndexPart(0), KeyPart("given"), IndexPart(0)>>],
       [source_field |-> "last_name", transformation |-> NoTransformation,
        target_path |-> <<KeyPart("name"), IndexPart(0), KeyPart("family")>>],
       [source_field |-> "date_of_birth", transformation |-> "format_date",
        target_path |-> <<KeyPart("birthDate")>>],
       [source_field |-> "gender", transformation |-> "normalize_gender",
        target_path |-> <<KeyPart("gender")>>],
       [source_field |-> "phone_number", transformation |-> NoTransformation,
        target_path |-> <<KeyPart("telecom"), IndexPart(0), KeyPart("value")>>],
       [source_field |-> "email", transformation |-> NoTransformation,
        target_path |-> <<KeyPart("telecom"), IndexPart(1), KeyPart("value")>>],
       [source_field |-> "address_line1", transformation |-> NoTransformation,
        target_path |-> <<KeyPart("address"), IndexPart(0), KeyPart("line"), IndexPart(0)>>],
       [source_field |-> "city", transformation |-> NoTransformation,
        target_path |-> <<KeyPart("address"), IndexPart(0), KeyPart("city")>>],
       [source_field |-> "state", transformation |-> NoTransformation,
        target_path |-> <<KeyPart("address"), IndexPart(0), KeyPart("state")>>],
       [source_field |-> "zip_code", transformation |-> NoTransformation,
        target_path |-> <<KeyPart("address"), IndexPart(0), KeyPart("postalCode")>>] >>

SourceFields == {PATIENT_MAPPING[k].source_field : k \in DOMAIN PATIENT_MAPPING}

\* the columns of patients that are nullable (models.py)
NullableFields == {"gender", "phone_number", "email", "address_line1", "city",
                   "state", "zip_code"}

\* the rows of patients as _model_to_dict returns them: a NOT NULL column
\* holds a value, a nullable column a value or None
Records ==
    {r \in [SourceFields -> {"x", Null}] : \A f \in SourceFields \ NullableFields : r[f] # Null}

\* DataTransformer.apply_transformation
apply_transformation(value, transformation) ==
    IF transformation = NoTransformation \/ value = Null
    THEN Value(NoTransformation, value)
    ELSE Value(transformation, value)

IsPrefix(p, q) == Len(p) <= Len(q) /\ SubSeq(q, 1, Len(p)) = p

Has(obj, path) == \E n \in obj : n.path = path

\* len(current) for the list at path current
LenOf(obj, current) ==
    Cardinality({n \in obj : Len(n.path) = Len(current) + 1 /\ IsPrefix(current, n.path)})

\* (a variant that appends None where the walk goes on through the element)
PadNone(obj, current, idx, kind) ==
    obj \cup {Node(Append(current, IndexPart(j)), "none", NullValue) :
                j \in LenOf(obj, current)..idx}

\* while len(current) <= idx: current.append({}) (or None)
Pad(obj, current, idx, kind) ==
    obj \cup {Node(Append(current, IndexPart(j)), kind, NullValue) :
                j \in LenOf(obj, current)..idx}

\* current[key] = value, current[idx] = value: what was there is replaced
Assign(obj, path, value) ==
    {n \in obj : ~ IsPrefix(path, n.path)} \cup {Node(path, "value", value)}

\* the loop of set_nested_value over parts[:-1] from part i on, then the
\* assignment of the last part
RECURSIVE Descend(_, _, _, _, _)
Descend(obj, current, parts, i, value) ==
    LET part == parts[i]
        child == Append(current, part)
    IN IF i = Len(parts)
       THEN IF part.key # ""
            THEN Assign(obj, child, value)
            ELSE Assign(Pad(obj, current, part.index, "none"), child, value)
       ELSE IF part.key # ""
       THEN Descend(IF Has(obj, child) THEN obj
                    ELSE obj \cup {Node(child, IF parts[i + 1].key = "" THEN "list"
                                                ELSE "dict", NullValue)},
                    child, parts, i + 1, value)
       ELSE Descend(Pad(obj, current, part.index, "dict"), child, parts, i + 1, value)

\* (a variant that builds the branch of the path anew, replacing what the
\* document holds under the path's first key)
set_nested_value_anew(obj, path, value) ==
    IF value.v = Null THEN obj
    ELSE {n \in obj : n.path[1] # path[1]} \cup Descend({}, <<>>, path, 1, value)

\* FHIRMapper.set_nested_value
set_nested_value(obj, path, value) ==
    IF value.v = Null THEN obj ELSE Descend(obj, <<>>, path, 1, value)

\* (a variant that starts from the empty dict)
NewResourceEmpty(target_resource) == {}

\* fhir_resource = {"resourceType": ...}
NewResource(target_resource) ==
    {Node(<<KeyPart("resourceType")>>, "value", Value(NoTransformation, target_resource))}

\* FHIRMapper.map_record: the field mappings from k on
RECURSIVE MapFields(_, _, _, _)
MapFields(fhir_resource, field_mappings, record, k) ==
    IF k > Len(field_mappings) THEN fhir_resource
    ELSE LET field_mapping == field_mappings[k]
             transformed_value == apply_transformation(record[field_mapping.source_field],
                                                       field_mapping.transformation)
         IN MapFields(set_nested_value(fhir_resource, field_mapping.target_path,
                                       transformed_value),
                      field_mappings, record, k + 1)

map_record(target_resource, field_mappings, record) ==
    MapFields(NewResource(target_resource), field_mappings, record, 1)

\* no record has been mapped
NoMapping == [record |-> [f \in SourceFields |-> Null], fhir_resource |-> {},
              patients |-> <<>>, fhir_patients |-> <<>>,
              stats |-> [transformed |-> 0, errors |-> 0]]

\* MappingService.map_patient_to_fhir on a row of patients
MapPatient(record) ==
    /\ mapping.fhir_resource = {}
    /\ mapping.patients = <<>>
    /\ mapping' = [mapping EXCEPT
                      !.record = record,
                      !.fhir_resource = map_record("Patient", PATIENT_MAPPING, record)]
    /\ UNCHANGED <<apivars, datavars, targetvars, schedvars, result, full, transform, nested>>

\* the dicts map_record can be given: record.get(source_field) is None for a
\* key that is absent, so the empty dict is the record with every field None
AnyRecords == [SourceFields -> {"x", Null}]

EmptyRecord == [f \in SourceFields |-> Null]

\* FHIRMapper(PATIENT_MAPPING).map_record(record) for any dict
MapRecord(record) ==
    /\ mapping.fhir_resource = {}
    /\ mapping.patients = <<>>
    /\ mapping' = [mapping EXCEPT
                      !.record = record,
                      !.fhir_resource = map_record("Patient", PATIENT_MAPPING, record)]
    /\ UNCHANGED <<apivars, datavars, targetvars, schedvars, result, full, transform, nested>>

\* the loop of ETLPipeline.transform_patients from patient k on; raises[k]
\* says whether the mapping of patient k raises
RECURSIVE TransformLoop(_, _, _, _)
TransformLoop(m, patients, raises, k) ==
    IF k > Len(patients) THEN m
    ELSE TransformLoop(
            IF raises[k]
            THEN [m EXCEPT !.stats.errors = @ + 1]
            ELSE [m EXCEPT !.fhir_patients =
                               Append(@, map_record("Patient", PATIENT_MAPPING, patients[k])),
                           !.stats.transformed = @ + 1],
            patients, raises, k + 1)

\* ETLPipeline.transform_patients
transform_patients(m, patients, raises) ==
    TransformLoop([m EXCEPT !.patients = patients, !.fhir_patients = <<>>],
                  patients, raises, 1)

\* the rows a batch is made of: no nullable column set, or all of them set
BatchRecords ==
    {r \in Records : \A f, g \in NullableFields : r[f] = r[g]}

\* a call of transform_patients with at most MaxBatch patients
TransformPatients(patients, raises) ==
    /\ mapping.fhir_resource = {}
    /\ mapping.patients = <<>>
    /\ patients # <<>>
    /\ mapping' = transform_patients(mapping, patients, raises)
    /\ UNCHANGED <<apivars, datavars, targetvars, schedvars, result, full, transform, nested>>

\* ------------------------------------------- set_nested_value on its own
\* the values written: two strings
Written == {Value(NoTransformation, "v"), Value(NoTransformation, "w")}

\* the paths "x[n].y" and "x[n]" after re.findall, n up to MaxIndex
IndexedPaths ==
    {<<KeyPart("x"), IndexPart(n), KeyPart("y")>> : n \in 0..MaxIndex}
    \cup {<<KeyPart("x"), IndexPart(n)>> : n \in 0..MaxIndex}

\* the documents a first write is made into: the empty dict and a new resource
NewDocuments == {{}, NewResource("Patient")}

\* no write has been made
NoNested == [obj |-> {}, path |-> <<>>, value |-> NullValue, result |-> {},
             raised |-> FALSE, writes |-> 0, record |-> [f \in SourceFields |-> Null],
             applied |-> {}]

\* set_nested_value raises TypeError when the walk reaches a str or None
\* where the path goes on: current[last_key] = value on a list element that
\* is not a dict
Raises(obj, path, value) ==
    /\ value.v # Null
    /\ \E n \in obj : /\ n.kind \in {"value", "none"}
                      /\ IsPrefix(n.path, path)
                      /\ Len(n.path) < Len(path)

\* a call of FHIRMapper.set_nested_value(obj, path, value) on the document
\* the call before it left
SetNestedValue(path, value) ==
    /\ nested.writes < MaxWrites
    /\ nested' = [nested EXCEPT
                     !.obj = nested.result, !.path = path, !.value = value,
                     !.raised = Raises(nested.result, path, value),
                     !.result = IF Raises(nested.result, path, value) THEN nested.result
                                ELSE set_nested_value(nested.result, path, value),
                     !.writes = @ + 1]
    /\ UNCHANGED <<apivars, datavars, targetvars, schedvars, result, full, mapping, transform>>

\* the rows of patients the field mappings are applied to one by one: the
\* telephone, email, street and city columns hold a value or None
MergeRecords ==
    {r \in Records : r["gender"] # Null /\ r["state"] = r["city"]
                     /\ r["zip_code"] = r["city"]}

\* the body of the loop of FHIRMapper.map_record for field mapping k of
\* PATIENT_MAPPING, the field mappings being taken in any order
WriteField(k) ==
    /\ k \notin nested.applied
    /\ LET field_mapping == PATIENT_MAPPING[k]
           transformed_value == apply_transformation(
                                    nested.record[field_mapping.source_field],
                                    field_mapping.transformation)
       IN nested' = [nested EXCEPT
                        !.obj = nested.result,
                        !.path = field_mapping.target_path,
                        !.value = transformed_value,
                        !.result = set_nested_value(nested.result,
                                                    field_mapping.target_path,
                                                    transformed_value),
                        !.writes = @ + 1,
                        !.applied = @ \cup {k}]
    /\ UNCHANGED <<apivars, datavars, targetvars, schedvars, result, full, mapping, transform>>

\* ------------------------------------------------- the transformation registry
\* A str is the sequence of its characters; a character is its lower-case
\* form and whether it is written in upper case
Ch(c) == [c |-> c, upper |-> FALSE]
Word(w) == [i \in DOMAIN w |-> Ch(w[i])]

NonLetters == {" ", "-", "+", ".", ",", "0", "1", "2", "3", "4", "5", "6", "7", "8", "9"}
Digits == {"0", "1", "2", "3", "4", "5", "6", "7", "8", "9"}

\* an argument of a transformation: None or a str (the columns transformed
\* are String columns, models.py)
PyNone == [none |-> TRUE, s |-> <<>>]
PyStr(s) == [none |-> FALSE, s |-> s]

\* a return value: a str, None, a float or an exception raised
Str(s) == [kind |-> "str", s |-> s, num |-> <<>>]
RNone == [kind |-> "None", s |-> "", num |-> <<>>]
Float(num) == [kind |-> "float", s |-> "", num |-> num]
Raised(e) == [kind |-> "raised", s |-> e, num |-> <<>>]
NoResult == [kind |-> "", s |-> "", num |-> <<>>]

\* str.lower()
lower(s) == [i \in DOMAIN s |-> [s[i] EXCEPT !.upper = FALSE]]

\* str.strip()
strip(s) ==
    LET kept == {i \in DOMAIN s : s[i].c # " "}
    IN IF kept = {} THEN <<>> ELSE SubSeq(s, Min(kept), Max(kept))

\* dict.get(key, default) for a dict given as a set of <<key, value>>
Get(d, key, default) ==
    IF \E p \in d : p[1] = key
    THEN (CHOOSE p \in d : p[1] = key)[2]
    ELSE default

SkipSign(p, i) == IF i <= Len(p) /\ p[i].c \in {"+", "-"} THEN i + 1 ELSE i

RECURSIVE SkipDigits(_, _)
SkipDigits(p, i) == IF i <= Len(p) /\ p[i].c \in Digits THEN SkipDigits(p, i + 1) ELSE i

\* the strings float() accepts, surrounding whitespace stripped and case
\* ignored: [sign] digits [. digits] [e [sign] digits], [sign] . digits ...,
\* [sign] inf | infinity | nan
IsFloatLiteral(p) ==
    LET a == SkipSign(p, 1)
        b == SkipDigits(p, a)
        point == b <= Len(p) /\ p[b].c = "."
        c == IF point THEN SkipDigits(p, b + 1) ELSE b
        ndigits == (b - a) + (IF point THEN c - (b + 1) ELSE 0)
        exponent == c <= Len(p) /\ p[c].c = "e"
        d == IF exponent THEN SkipSign(p, c + 1) ELSE c
        e == IF exponent THEN SkipDigits(p, d) ELSE c
    IN \/ SubSeq(p, a, Len(p)) \in {Word(<<"i", "n", "f">>), Word(<<"n", "a", "n">>),
                                    Word(<<"i", "n", "f", "i", "n", "i", "t", "y">>)}
       \/ ndigits >= 1 /\ (exponent => e > d) /\ e = Len(p) + 1

\* float(value) for a str: the float, or ValueError
float(value) ==
    IF IsFloatLiteral(lower(strip(value.s)))
    THEN Float(lower(strip(value.s))) ELSE Raised("ValueError")

\* DataTransformer.to_decimal
to_decimal(value) ==
    IF value.none \/ value.s = <<>> THEN RNone
    ELSE IF float(value).kind = "raised" THEN RNone
    ELSE float(value)

\* DataTransformer.normalize_gender
normalize_gender(value) ==
    IF value.none THEN Str("unknown")
    ELSE LET gender_str == strip(lower(value.s))
         IN IF gender_str \in {Word(<<"m">>), Word(<<"m", "a", "l", "e">>),
                               Word(<<"m", "a", "n">>)}
            THEN Str("male")
            ELSE IF gender_str \in {Word(<<"f">>), Word(<<"f", "e", "m", "a", "l", "e">>),
                                    Word(<<"w", "o", "m", "a", "n">>)}
            THEN Str("female")
            ELSE IF gender_str \in {Word(<<"o">>), Word(<<"o", "t", "h", "e", "r">>)}
            THEN Str("other")
            ELSE Str("unknown")

\* the dict of map_encounter_class
EncounterClasses ==
    { <<Word(<<"i", "n", "p", "a", "t", "i", "e", "n", "t">>), "IMP">>,
      <<Word(<<"o", "u", "t", "p", "a", "t", "i", "e", "n", "t">>), "AMB">>,
      <<Word(<<"e", "m", "e", "r", "g", "e", "n", "c", "y">>), "EMER">>,
      <<Word(<<"h", "o", "m", "e">>), "HH">>,
      <<Word(<<"v", "i", "r", "t", "u", "a", "l">>), "VR">> }

\* DataTransformer.map_encounter_class
map_encounter_class(encounter_type) ==
    IF encounter_type.none THEN Str("AMB")
    ELSE Str(Get(EncounterClasses, lower(encounter_type.s), "AMB"))

\* the dict of map_encounter_status
EncounterStatuses ==
    { <<Word(<<"a", "c", "t", "i", "v", "e">>), "in-progress">>,
      <<Word(<<"d", "i", "s", "c", "h", "a", "r", "g", "e", "d">>), "finished">>,
      <<Word(<<"c", "a", "n", "c", "e", "l", "l", "e", "d">>), "cancelled">>,
      <<Word(<<"t", "r", "a", "n", "s", "f", "e", "r", "r", "e", "d">>), "in-progress">>,
      <<Word(<<"p", "l", "a", "n", "n", "e", "d">>), "planned">> }

\* DataTransformer.map_encounter_status
map_encounter_status(status) ==
    IF status.none THEN Str("unknown")
    ELSE Str(Get(EncounterStatuses, lower(status.s), "unknown"))

\* the dict of map_abnormal_flag
AbnormalFlags ==
    { <<Word(<<"n", "o", "r", "m", "a", "l">>), "N">>,
      <<Word(<<"h", "i", "g", "h">>), "H">>,
      <<Word(<<"l", "o", "w">>), "L">>,
      <<Word(<<"c", "r", "i", "t", "i", "c", "a", "l">>), "HH">>,
      <<Word(<<"a", "b", "n", "o", "r", "m", "a", "l">>), "A">> }

\* DataTransformer.map_abnormal_flag
map_abnormal_flag(flag) ==
    IF flag.none THEN RNone
    ELSE Str(Get(AbnormalFlags, lower(flag.s), "N"))

\* the dict of map_medication_status
MedicationStatuses ==
    { <<Word(<<"a", "c", "t", "i", "v", "e">>), "active">>,
      <<Word(<<"c", "o", "m", "p", "l", "e", "t", "e", "d">>), "completed">>,
      <<Word(<<"d", "i", "s", "c", "o", "n", "t", "i", "n", "u", "e", "d">>), "stopped">>,
      <<Word(<<"c", "a", "n", "c", "e", "l", "l", "e", "d">>), "cancelled">>,
      <<Word(<<"o", "n", "-", "h", "o", "l", "d">>), "on-hold">> }

\* DataTransformer.map_medication_status
map_medication_status(status) ==
    IF status.none THEN Str("unknown")
    ELSE Str(Get(MedicationStatuses, lower(status.s), "unknown"))

Transformations ==
    {"to_decimal", "normalize_gender", "map_encounter_class", "map_encounter_status",
     "map_abnormal_flag", "map_medication_status"}

\* getattr(cls, transformation)(value)
transform_method(transformation, value) ==
    CASE transformation = "to_decimal" -> to_decimal(value)
      [] transformation = "normalize_gender" -> normalize_gender(value)
      [] transformation = "map_encounter_class" -> map_encounter_class(value)
      [] transformation = "map_encounter_status" -> map_encounter_status(value)
      [] transformation = "map_abnormal_flag" -> map_abnormal_flag(value)
      [] transformation = "map_medication_status" -> map_medication_status(value)

\* the tokens of the dicts and lists above, and strings that are none of them
Tokens ==
    {p[1] : p \in EncounterClasses \cup EncounterStatuses \cup AbnormalFlags
                  \cup MedicationStatuses}
    \cup {Word(<<"m">>), Word(<<"m", "a", "l", "e">>), Word(<<"m", "a", "n">>),
          Word(<<"f">>), Word(<<"f", "e", "m", "a", "l", "e">>),
          Word(<<"w", "o", "m", "a", "n">>), Word(<<"o">>),
          Word(<<"o", "t", "h", "e", "r">>),
          Word(<<>>), Word(<<"x">>), Word(<<"u", "n", "k", "n", "o", "w", "n">>),
          Word(<<"1">>), Word(<<"1", ".", "5">>), Word(<<"-", "1">>), Word(<<".", "5">>),
          Word(<<"1", "e", "5">>), Word(<<"1", "e">>), Word(<<".">>), Word(<<"1", ",", "5">>),
          Word(<<"1", " ", "5">>), Word(<<"n", "a", "n">>), Word(<<"i", "n", "f">>)}

\* how a token is written: in lower case, in upper case, capitalized
Cases == {"lower", "upper", "title"}

Cased(w, case) ==
    [i \in DOMAIN w |->
        [w[i] EXCEPT !.upper = /\ w[i].c \notin NonLetters
                               /\ (case = "upper" \/ (case = "title" /\ i = 1))]]

Spaces(n) == [i \in 1..n |-> Ch(" ")]

\* the values a transformation is called with
Inputs ==
    {PyNone} \cup {PyStr(Spaces(l) \o Cased(w, case) \o Spaces(r)) :
                     w \in Tokens, case \in Cases, l \in 0..MaxPad, r \in 0..MaxPad}

\* no transformation has been called
NoTransform == [transformation |-> "", value |-> PyNone, result |-> NoResult]

\* a call of DataTransformer.<transformation>(value) that returns or raises
Transform ==
    /\ transform.transformation \in Transformations
    /\ transform.result = NoResult
    /\ transform' = [transform EXCEPT
                        !.result = transform_method(transform.transformation,
                                                    transform.value)]
    /\ UNCHANGED <<apivars, datavars, targetvars, schedvars, result, full, mapping, nested>>

\* the static methods of DataTransformer, which field mappings name
RegistryNames ==
    Transformations \cup {"to_string", "format_date", "format_datetime",
                          "patient_reference", "encounter_reference",
                          "extract_dosage_value"}

\* names that are no attribute of the class: getattr returns the default None
AbsentNames == {"", "to_upper", "nope"}

\* getattr(cls, transformation, None) for a name that is no static method:
\* the classmethod apply_transformation itself, a method inherited from
\* object, an attribute that is not callable, or None
getattr(transformation) ==
    CASE transformation = "apply_transformation" -> "classmethod"
      [] transformation = "__init__" -> "object_method"
      [] transformation = "__doc__" -> "str"
      [] transformation \in RegistryNames -> "staticmethod"
      [] OTHER -> "None"

\* the names apply_transformation is called with
AttributeNames ==
    Transformations \cup AbsentNames \cup {"apply_transformation", "__init__", "__doc__"}

\* a value handed back as it was given
Unchanged(value) == IF value.none THEN RNone ELSE Str(value.s)

\* DataTransformer.apply_transformation(value, transformation), transformation
\* a str.  cls.apply_transformation(value) lacks its second argument and
\* raises TypeError; object.__init__(value) returns None.
apply_transformation_by_name(value, transformation) ==
    IF value.none THEN Unchanged(value)
    ELSE CASE getattr(transformation) = "staticmethod" ->
                 transform_method(transformation, value)
           [] getattr(transformation) = "classmethod" -> Raised("TypeError")
           [] getattr(transformation) = "object_method" -> RNone
           [] OTHER -> Unchanged(value)

\* a call of DataTransformer.apply_transformation that returns or raises
ApplyTransformation ==
    /\ transform.transformation \in AttributeNames
    /\ transform.result = NoResult
    /\ transform' = [transform EXCEPT
                        !.result = apply_transformation_by_name(
                                       transform.value, transform.transformation)]
    /\ UNCHANGED <<apivars, datavars, targetvars, schedvars, result, full, mapping, nested>>

\* ------------------------------------------------------------ the shared_db
\* T is the pair of target tables [patient |-> ..., encounter |-> ...]
Target == [patient |-> fhir_patient, encounter |-> fhir_encounter]

\* load_patients, one resource: INSERT ... ON CONFLICT (tenant_id,
\* source_patient_id) DO UPDATE.  A failing execute is caught inside the loop.
LoadPatient(T, tenant_id, fhir, fails) ==
    IF fails THEN T
    ELSE [T EXCEPT !.patient = @ \cup {[tenant_id |-> tenant_id,
                                        source_patient_id |-> fhir.id]}]

\* a plain INSERT ... SELECT, with no ON CONFLICT clause and no unique key
LoadEncounterInsert(T, tenant_id, fhir, fails) ==
    LET source_patient_id == ReferenceId(fhir.subject)
        fp == {r \in T.patient : r.tenant_id = tenant_id
                                 /\ r.source_patient_id = source_patient_id}
    IN IF fails \/ fp = {} THEN T
       ELSE [T EXCEPT !.encounter = @ \cup {[tenant_id |-> tenant_id,
                                             source_encounter_id |-> fhir.id,
                                             patient_id |-> source_patient_id]}]

\* _load_encounters, one resource: INSERT ... SELECT ... FROM fhir_patient fp
\* WHERE fp.tenant_id = :tenant_id AND fp.source_patient_id = :source_patient_id
\* ON CONFLICT (tenant_id, source_encounter_id) DO UPDATE SET status, period_end
LoadEncounter(T, tenant_id, fhir, fails) ==
    LET source_patient_id == ReferenceId(fhir.subject)
        fp == {r \in T.patient : r.tenant_id = tenant_id
                                 /\ r.source_patient_id = source_patient_id}
        conflict == {r \in T.encounter : r.tenant_id = tenant_id
                                         /\ r.source_encounter_id = fhir.id}
    IN IF fails \/ fp = {} \/ conflict # {} THEN T
       ELSE [T EXCEPT !.encounter = @ \cup {[tenant_id |-> tenant_id,
                                             source_encounter_id |-> fhir.id,
                                             patient_id |-> source_patient_id]}]

\* --------------------------------------------------------- incremental sync
Faults == {"none", "raise", "load"}

\* IncrementalSync.get_changes_since_last_sync: the SELECT list of one row
ChangeRow(e) == [change_id |-> e.change_id, table_name |-> e.table_name,
                 operation |-> e.operation, record_id |-> e.record_id]

\* ORDER BY change_id ASC
RECURSIVE OrderByChangeIdAsc(_)
OrderByChangeIdAsc(S) ==
    IF S = {} THEN <<>>
    ELSE LET first == CHOOSE e \in S : \A o \in S : e.change_id <= o.change_id
         IN <<first>> \o OrderByChangeIdAsc(S \ {first})

\* (a variant whose rows come newest first)
get_changes_newest_first(log, last) ==
    LET rows == IF last # None /\ last # 0
                THEN {e \in log : e.change_id > last}
                ELSE log
        asc == OrderByChangeIdAsc({ChangeRow(e) : e \in rows})
    IN [i \in 1..Len(asc) |-> asc[Len(asc) + 1 - i]]

\* IncrementalSync.get_changes_since_last_sync: [WHERE change_id >
\* :last_sync_id] ORDER BY change_id ASC
get_changes_since_last_sync(log, last) ==
    LET rows == IF last # None /\ last # 0
                THEN {e \in log : e.change_id > last}
                ELSE log
    IN OrderByChangeIdAsc({ChangeRow(e) : e \in rows})

\* Optional[str] table_name: None and "" are both false in "if table_name:"
NoTable == ""

\* LIMIT :limit
Limit(rows, limit) == SubSeq(rows, 1, Min({limit, Len(rows)}))

\* PostgreSQLAdapter.get_changes: WHERE 1=1 [AND change_id > :since_id]
\* [AND table_name = :table_name] ORDER BY change_id LIMIT :limit
get_changes(log, since_change_id, table_name, limit) ==
    LET since == IF since_change_id # None
                 THEN {e \in log : e.change_id > since_change_id} ELSE log
        rows == IF table_name # NoTable
                THEN {e \in since : e.table_name = table_name} ELSE since
    IN Limit(OrderByChangeIdAsc({ChangeRow(e) : e \in rows}), limit)

\* changed_at TIMESTAMP DEFAULT CURRENT_TIMESTAMP: the start time of the
\* capturing transaction; for statements in autocommit, run one after another,
\* it grows with change_id
changed_at(e) == e.change_id

\* ORDER BY changed_at DESC
RECURSIVE OrderByChangedAtDesc(_)
OrderByChangedAtDesc(S) ==
    IF S = {} THEN <<>>
    ELSE LET first == CHOOSE e \in S : \A o \in S : changed_at(e) >= changed_at(o)
         IN <<first>> \o OrderByChangedAtDesc(S \ {first})

\* CDCMonitor.get_recent_changes, behind GET /cdc/changes: [WHERE table_name =
\* :table_name] ORDER BY changed_at DESC LIMIT :limit; it takes no sinceId
get_recent_changes(log, table_name, limit) ==
    LET rows == IF table_name # NoTable
                THEN {e \in log : e.table_name = table_name} ELSE log
    IN Limit(OrderByChangedAtDesc({ChangeRow(e) : e \in rows}), limit)

\* a DELETE that is reported and not carried out
sync_changed_patient_keeps(T, h, tenant_id, patient_id, operation, fault) ==
    IF fault = "raise"
    THEN [success |-> FALSE, outcome |-> "error", target |-> T]
    ELSE IF operation = "DELETE"
    THEN [success |-> TRUE, outcome |-> "deleted", target |-> T]
    ELSE IF ~ RowExists(h, "patients", patient_id)
    THEN [success |-> FALSE, outcome |-> "not_found", target |-> T]
    ELSE [success |-> TRUE, outcome |-> "synced",
          target |-> LoadPatient(T, tenant_id,
                        map_patient_to_fhir([pk |-> patient_id,
                                             patient_id |-> h["patients"][patient_id]]),
                        fault = "load")]

\* a DELETE ... WHERE source_patient_id = :source_id, with no tenant_id
sync_changed_patient_all_tenants(T, h, tenant_id, patient_id, operation, fault) ==
    IF fault = "raise"
    THEN [success |-> FALSE, outcome |-> "error", target |-> T]
    ELSE IF operation = "DELETE"
    THEN [success |-> TRUE, outcome |-> "deleted",
          target |-> [T EXCEPT !.patient =
                        {r \in @ : r.source_patient_id # to_string(patient_id)}]]
    ELSE IF ~ RowExists(h, "patients", patient_id)
    THEN [success |-> FALSE, outcome |-> "not_found", target |-> T]
    ELSE [success |-> TRUE, outcome |-> "synced",
          target |-> LoadPatient(T, tenant_id,
                        map_patient_to_fhir([pk |-> patient_id,
                                             patient_id |-> h["patients"][patient_id]]),
                        fault = "load")]

\* IncrementalSync.sync_changed_patient
sync_changed_patient(T, h, tenant_id, patient_id, operation, fault) ==
    IF fault = "raise"
    THEN [success |-> FALSE, outcome |-> "error", target |-> T]
    ELSE IF operation = "DELETE"
    THEN [success |-> TRUE, outcome |-> "deleted",
          target |-> [T EXCEPT !.patient =
                        {r \in @ : ~ (r.tenant_id = tenant_id
                                      /\ r.source_patient_id = to_string(patient_id))}]]
    ELSE IF ~ RowExists(h, "patients", patient_id)
    THEN [success |-> FALSE, outcome |-> "not_found", target |-> T]
    ELSE [success |-> TRUE, outcome |-> "synced",
          target |-> LoadPatient(T, tenant_id,
                        map_patient_to_fhir([pk |-> patient_id,
                                             patient_id |-> h["patients"][patient_id]]),
                        fault = "load")]

\* IncrementalSync.sync_changed_encounter
sync_changed_encounter(T, h, tenant_id, encounter_id, operation, fault) ==
    IF fault = "raise"
    THEN [success |-> FALSE, outcome |-> "error", target |-> T]
    ELSE IF operation = "DELETE"
    THEN [success |-> TRUE, outcome |-> "deleted",
          target |-> [T EXCEPT !.encounter =
                        {r \in @ : ~ (r.tenant_id = tenant_id
                                      /\ r.source_encounter_id = to_string(encounter_id))}]]
    ELSE IF ~ RowExists(h, "encounters", encounter_id)
    THEN [success |-> FALSE, outcome |-> "not_found", target |-> T]
    ELSE [success |-> TRUE, outcome |-> "synced",
          target |-> LoadEncounter(T, tenant_id,
                        map_encounter_to_fhir([pk |-> encounter_id,
                                               patient_id |-> h["encounters"][encounter_id]]),
                        fault = "load")]

ZeroCount(D) == [d \in D |-> 0]

\* the return value of sync_incremental when there is nothing to sync
EmptyStats(last) ==
    [total_changes |-> 0, synced |-> 0, errors |-> 0,
     by_table |-> ZeroCount(Tables), by_operation |-> ZeroCount(Operations),
     last_change_id |-> last,
     keys |-> {"total_changes", "synced", "errors", "last_change_id"}]

\* stats = {...} before the loop of sync_incremental
StartStats(changes) ==
    [total_changes |-> Len(changes), synced |-> 0, errors |-> 0,
     by_table |-> ZeroCount(Tables), by_operation |-> ZeroCount(Operations),
     last_change_id |-> None,
     keys |-> {"total_changes", "synced", "errors", "by_table", "by_operation"}]

\* a change that was not synced is counted nowhere
CountSyncedOnly(stats, success) ==
    IF success THEN [stats EXCEPT !.synced = @ + 1] ELSE stats

\* which counter one change adds to
Count(stats, success) ==
    IF success THEN [stats EXCEPT !.synced = @ + 1]
    ELSE [stats EXCEPT !.errors = @ + 1]

\* last_change_id kept at the first change of the batch
KeepFirstChangeId(stats, change) ==
    IF "last_change_id" \in stats.keys THEN stats
    ELSE [stats EXCEPT !.last_change_id = change.change_id,
                       !.keys = @ \cup {"last_change_id"}]

\* stats['last_change_id'] = change['change_id']
SetLastChangeId(stats, change) ==
    [stats EXCEPT !.last_change_id = change.change_id,
                  !.keys = @ \cup {"last_change_id"}]

\* (a variant that skips an event of a table with no handler before it is
\* counted and before last_change_id is set)
ProcessChangeSkipping(run, change, h, tenant_id, fault) ==
    IF change.table_name \notin {"patients", "encounters"}
    THEN [run EXCEPT !.outcomes = Append(@, "no_handler")]
    ELSE LET dispatched ==
                 IF change.table_name = "patients"
                 THEN sync_changed_patient(run.target, h, tenant_id,
                                           change.record_id, change.operation, fault)
                 ELSE sync_changed_encounter(run.target, h, tenant_id,
                                             change.record_id, change.operation, fault)
             counted == [run.stats EXCEPT
                             !.by_table[change.table_name] = @ + 1,
                             !.by_operation[change.operation] = @ + 1]
         IN [stats    |-> SetLastChangeId(Count(counted, dispatched.success), change),
             target   |-> dispatched.target,
             outcomes |-> Append(run.outcomes, dispatched.outcome)]

\* one iteration of the loop of sync_incremental; run is the loop's state
\* [stats, target, outcomes]
ProcessChange(run, change, h, tenant_id, fault) ==
    LET dispatched ==
            IF change.table_name = "patients"
            THEN sync_changed_patient(run.target, h, tenant_id,
                                      change.record_id, change.operation, fault)
            ELSE IF change.table_name = "encounters"
            THEN sync_changed_encounter(run.target, h, tenant_id,
                                        change.record_id, change.operation, fault)
            ELSE [success |-> FALSE, outcome |-> "no_handler", target |-> run.target]
        counted == [run.stats EXCEPT
                        !.by_table[change.table_name] = @ + 1,
                        !.by_operation[change.operation] = @ + 1]
    IN [stats    |-> SetLastChangeId(Count(counted, dispatched.success), change),
        target   |-> dispatched.target,
        outcomes |-> Append(run.outcomes, dispatched.outcome)]

RECURSIVE ProcessChanges(_, _, _, _, _, _)
ProcessChanges(run, changes, i, h, tenant_id, faults) ==
    IF i > Len(changes) THEN run
    ELSE ProcessChanges(ProcessChange(run, changes[i], h, tenant_id, faults[i]),
                        changes, i + 1, h, tenant_id, faults)

\* IncrementalSync.sync_incremental, the rows of hospital_db not changing
\* during the run
sync_incremental(T, h, log, tenant_id, last, faults) ==
    LET changes == get_changes_since_last_sync(log, last)
    IN IF changes = <<>>
       THEN [stats |-> EmptyStats(last), target |-> T, outcomes |-> <<>>]
       ELSE ProcessChanges([stats |-> StartStats(changes), target |-> T,
                            outcomes |-> <<>>],
                           changes, 1, h, tenant_id, faults)

\* the processing of at most MaxFaults changes of one run fails
FaultSeqs(n) ==
    {f \in [1..n -> Faults] : Cardinality({k \in 1..n : f[k] # "none"}) <= MaxFaults}

\* ---------------------------------------------------------------- full sync
\* what can go wrong with one record of a batch: its mapping raises, the
\* building of the statement's parameters raises, or the execute fails
LoadFaults == {"none", "map", "params", "execute"}

\* where sync_all raises: not at all, when sync_patients opens its sessions,
\* or when sync_encounters opens its sessions
RaiseAt == {"none", "patients", "encounters"}

Orderings(S) ==
    {f \in [1..Cardinality(S) -> S] : \A i, j \in DOMAIN f : i # j => f[i] # f[j]}

\* query.limit(limit).all() when limit is truthy, query.all() otherwise; the
\* query has no ORDER BY
Extracted(h, tbl, limit) ==
    LET rows == {i \in Ids(tbl) : h[tbl][i] # 0}
        n == IF limit # None /\ limit # 0
             THEN Min({limit, Cardinality(rows)}) ELSE Cardinality(rows)
    IN UNION {Orderings(S) : S \in {R \in SUBSET rows : Cardinality(R) = n}}

ZeroEntity == [extracted |-> 0, transformed |-> 0, loaded |-> 0, errors |-> 0]

\* ETLPipeline.stats as __init__ leaves it
ZeroFull == [patients |-> ZeroEntity, encounters |-> ZeroEntity,
             observations |-> ZeroEntity, medications |-> ZeroEntity]

MapRow(tbl, h, i) ==
    IF tbl = "patients"
    THEN map_patient_to_fhir([pk |-> i, patient_id |-> h[tbl][i]])
    ELSE map_encounter_to_fhir([pk |-> i, patient_id |-> h[tbl][i]])

Load(tbl, T, tenant_id, fhir) ==
    IF tbl = "patients" THEN LoadPatient(T, tenant_id, fhir, FALSE)
    ELSE LoadEncounter(T, tenant_id, fhir, FALSE)

\* transform_patients + load_patients (the same two loops in sync_encounters
\* and _load_encounters), record i of the batch; b is [stats, target, aborted].
\* A failed execute leaves the transaction aborted: every later execute of
\* the batch fails too.
\* (a variant in which a mapping that raises hands on the document built so
\* far, which is loaded)
BatchRecordPartial(tbl, b, h, tenant_id, i, fault) ==
    IF fault = "map"
    THEN [b EXCEPT !.stats.errors = @ + 1,
                   !.target = Load(tbl, @, tenant_id, MapRow(tbl, h, i))]
    ELSE IF fault = "params"
    THEN [b EXCEPT !.stats.transformed = @ + 1, !.stats.errors = @ + 1]
    ELSE IF fault = "execute" \/ b.aborted
    THEN [b EXCEPT !.stats.transformed = @ + 1, !.stats.errors = @ + 1,
                   !.aborted = TRUE]
    ELSE [b EXCEPT !.stats.transformed = @ + 1, !.stats.loaded = @ + 1,
                   !.target = Load(tbl, @, tenant_id, MapRow(tbl, h, i))]

\* transform_patients + load_patients (the same two loops in sync_encounters
\* and _load_encounters), record i of the batch; b is [stats, target, aborted].
\* A failed execute leaves the transaction aborted: every later execute of
\* the batch fails too.
BatchRecord(tbl, b, h, tenant_id, i, fault) ==
    IF fault = "map"
    THEN [b EXCEPT !.stats.errors = @ + 1]
    ELSE IF fault = "params"
    THEN [b EXCEPT !.stats.transformed = @ + 1, !.stats.errors = @ + 1]
    ELSE IF fault = "execute" \/ b.aborted
    THEN [b EXCEPT !.stats.transformed = @ + 1, !.stats.errors = @ + 1,
                   !.aborted = TRUE]
    ELSE [b EXCEPT !.stats.transformed = @ + 1, !.stats.loaded = @ + 1,
                   !.target = Load(tbl, @, tenant_id, MapRow(tbl, h, i))]

RECURSIVE Batch(_, _, _, _, _, _, _)
Batch(tbl, b, h, tenant_id, rows, faults, k) ==
    IF k > Len(rows) THEN b
    ELSE Batch(tbl, BatchRecord(tbl, b, h, tenant_id, rows[k], faults[k]),
               h, tenant_id, rows, faults, k + 1)

\* (a variant in which every statement of the batch commits on its own)
sync_entity_autocommit(tbl, T, h, tenant_id, rows, faults) ==
    LET b == Batch(tbl, [stats |-> [ZeroEntity EXCEPT !.extracted = Len(rows)],
                         target |-> T, aborted |-> FALSE],
                   h, tenant_id, rows, faults, 1)
    IN [stats |-> b.stats, target |-> b.target]

\* ETLPipeline.sync_patients / sync_encounters; shared_db.commit() of an
\* aborted transaction writes nothing
sync_entity(tbl, T, h, tenant_id, rows, faults) ==
    LET b == Batch(tbl, [stats |-> [ZeroEntity EXCEPT !.extracted = Len(rows)],
                         target |-> T, aborted |-> FALSE],
                   h, tenant_id, rows, faults, 1)
    IN [stats |-> b.stats, target |-> IF b.aborted THEN T ELSE b.target]

\* (a variant that syncs the encounters first, then the patients)
sync_all_encounters_first(T, h, tenant_id, patients, pfaults, encounters, efaults, raise_at) ==
    IF raise_at = "encounters"
    THEN [raised |-> TRUE, stats |-> ZeroFull, target |-> T]
    ELSE LET e == sync_entity("encounters", T, h, tenant_id, encounters, efaults)
         IN IF raise_at = "patients"
            THEN [raised |-> TRUE, stats |-> [ZeroFull EXCEPT !.encounters = e.stats],
                  target |-> e.target]
            ELSE LET p == sync_entity("patients", e.target, h, tenant_id,
                                      patients, pfaults)
                 IN [raised |-> FALSE,
                     stats |-> [ZeroFull EXCEPT !.patients = p.stats,
                                                !.encounters = e.stats],
                     target |-> p.target]

\* ETLPipeline.sync_all: patients first, then encounters
sync_all(T, h, tenant_id, patients, pfaults, encounters, efaults, raise_at) ==
    IF raise_at = "patients"
    THEN [raised |-> TRUE, stats |-> ZeroFull, target |-> T]
    ELSE LET p == sync_entity("patients", T, h, tenant_id, patients, pfaults)
         IN IF raise_at = "encounters"
            THEN [raised |-> TRUE, stats |-> [ZeroFull EXCEPT !.patients = p.stats],
                  target |-> p.target]
            ELSE LET e == sync_entity("encounters", p.target, h, tenant_id,
                                      encounters, efaults)
                 IN [raised |-> FALSE,
                     stats |-> [ZeroFull EXCEPT !.patients = p.stats,
                                                !.encounters = e.stats],
                     target |-> e.target]

NoFaults(n) == [k \in 1..n |-> "none"]

\* at most MaxFaults records of one batch fail
LoadFaultSeqs(n) ==
    {f \in [1..n -> LoadFaults] : Cardinality({k \in 1..n : f[k] # "none"}) <= MaxFaults}

\* the faults of one sync_all call in which at most one record fails
FullFaults(np, ne) ==
    {[patients |-> NoFaults(np), encounters |-> NoFaults(ne)]}
    \cup {[patients |-> [NoFaults(np) EXCEPT ![k] = fault], encounters |-> NoFaults(ne)] :
             k \in 1..np, fault \in LoadFaults \ {"none"}}
    \cup {[patients |-> NoFaults(np), encounters |-> [NoFaults(ne) EXCEPT ![k] = fault]] :
             k \in 1..ne, fault \in LoadFaults \ {"none"}}

\* the records of a batch that were given a fault
Failed(rows, faults) == {<<rows[k], faults[k]>> : k \in {j \in 1..Len(rows) : faults[j] # "none"}}

NoFull == [calls |-> 0, tenant_id |-> 0, limit |-> None,
           extracted |-> [patients |-> {}, encounters |-> {}],
           failed |-> [patients |-> {}, encounters |-> {}],
           stats |-> ZeroFull,
           source |-> [tbl \in Tables |-> [i \in Ids(tbl) |-> 0]],
           target |-> [patient |-> {}, encounter |-> {}]]

\* a direct call of ETLPipeline(tenant_id).sync_all() that returns
SyncAllCall(tenant_id, patients, pfaults, encounters, efaults) ==
    /\ full.calls < MaxFullRuns
    /\ \E run \in {sync_all(Target, hospital, tenant_id, patients, pfaults,
                             encounters, efaults, "none")} :
          /\ fhir_patient' = run.target.patient
          /\ fhir_encounter' = run.target.encounter
          /\ full' = [calls |-> full.calls + 1, tenant_id |-> tenant_id,
                       limit |-> None,
                       extracted |-> [patients |-> {patients[k] : k \in 1..Len(patients)},
                                      encounters |-> {encounters[k] : k \in 1..Len(encounters)}],
                       failed |-> [patients |-> Failed(patients, pfaults),
                                   encounters |-> Failed(encounters, efaults)],
                       stats |-> run.stats,
                       source |-> hospital,
                       target |-> run.target]
    /\ UNCHANGED <<apivars, datavars, schedvars, result, mapping, transform, nested>>

\* a direct call of ETLPipeline(tenant_id).sync_all(limit) in which no record
\* fails; patients and encounters are the rows the two extract queries return
SyncAllLimitCall(tenant_id, limit, patients, encounters) ==
    /\ full.calls < MaxLimitRuns
    /\ \E run \in {sync_all(Target, hospital, tenant_id,
                             patients, NoFaults(Len(patients)),
                             encounters, NoFaults(Len(encounters)), "none")} :
          /\ fhir_patient' = run.target.patient
          /\ fhir_encounter' = run.target.encounter
          /\ full' = [calls |-> full.calls + 1, tenant_id |-> tenant_id,
                       limit |-> limit,
                       extracted |-> [patients |-> {patients[k] : k \in 1..Len(patients)},
                                      encounters |-> {encounters[k] : k \in 1..Len(encounters)}],
                       failed |-> [patients |-> {}, encounters |-> {}],
                       stats |-> run.stats,
                       source |-> hospital,
                       target |-> run.target]
    /\ UNCHANGED <<apivars, datavars, schedvars, result, mapping, transform, nested>>

\* ------------------------------------------------------- the periodic driver
SinceIds == {None, 0} \cup (SeqStart .. SeqStart + 2)
Tenants == {1}

\* what a sync_incremental call read and returned
Returned(last, log, run) ==
    [since |-> last, changes |-> get_changes_since_last_sync(log, last),
     outcomes |-> run.outcomes, stats |-> run.stats]

\* SyncScheduler._run_sync after sync_incremental has returned stats
RecordRun(st, stats) ==
    [st EXCEPT !.total_runs = @ + 1,
               !.successful_runs = IF stats.total_changes > 0 THEN @ + 1 ELSE @,
               !.total_changes_synced = IF stats.total_changes > 0
                                        THEN @ + stats.synced ELSE @,
               !.last_error = "None"]

\* an except branch that counts the failure and drops its message
RecordFailureSilent(st) ==
    [st EXCEPT !.failed_runs = @ + 1]

\* SyncScheduler._run_sync, except branch
RecordFailure(st) ==
    [st EXCEPT !.failed_runs = @ + 1, !.last_error = "error"]

\* the cursor left where it was
KeepCursor(cursor, stats) == cursor

\* if 'last_change_id' in stats: self.last_sync_id = stats['last_change_id']
NextCursor(cursor, stats) ==
    IF "last_change_id" \in stats.keys THEN stats.last_change_id ELSE cursor

\* SyncScheduler._run_sync, a whole run; the read of the change log may raise
run_sync(read_fails, faults) ==
    /\ IF read_fails
       THEN /\ sched_stats' = RecordFailure(sched_stats)
            /\ UNCHANGED <<last_sync_id, targetvars, result>>
       ELSE \E run \in {sync_incremental(Target, hospital, data_change_log,
                                          SchedulerTenant, last_sync_id, faults)} :
               /\ last_sync_id' = NextCursor(last_sync_id, run.stats)
               /\ sched_stats' = RecordRun(sched_stats, run.stats)
               /\ fhir_patient' = run.target.patient
               /\ fhir_encounter' = run.target.encounter
               /\ result' = Returned(last_sync_id, data_change_log, run)
    /\ UNCHANGED <<apivars, datavars, is_running, thread, full, mapping, transform, nested>>

\* one of the first MaxRuns runs of the scheduler
RunSync(read_fails, faults) ==
    /\ sched_stats.total_runs + sched_stats.failed_runs < MaxRuns
    /\ run_sync(read_fails, faults)

\* one of the first MaxDriverRuns runs of the scheduler, each run made after
\* the one before it has returned
Tick(read_fails, faults) ==
    /\ sched_stats.total_runs + sched_stats.failed_runs < MaxDriverRuns
    /\ run_sync(read_fails, faults)

\* a run of the background thread: one of the first MaxLiveRuns runs whose
\* read of the change log succeeds, or one of the MaxLiveFailures whose read
\* raises
LiveTick(read_fails) ==
    /\ IF read_fails THEN sched_stats.failed_runs < MaxLiveFailures
       ELSE sched_stats.total_runs < MaxLiveRuns
    /\ run_sync(read_fails,
                NoFaults(Len(get_changes_since_last_sync(data_change_log, last_sync_id))))

\* a direct call of IncrementalSync(tenant_id).sync_incremental(last_sync_id)
SyncIncrementalCall(tenant_id, last, faults) ==
    /\ \E run \in {sync_incremental(Target, hospital, data_change_log,
                                     tenant_id, last, faults)} :
          /\ fhir_patient' = run.target.patient
          /\ fhir_encounter' = run.target.encounter
          /\ result' = Returned(last, data_change_log, run)
    /\ UNCHANGED <<apivars, datavars, schedvars, full, mapping, transform, nested>>

\* --------------------------------------- the scheduler's two threads
\* "main" calls start() and makes the initial _run_sync; "timer" is the
\* background thread whose schedule.run_pending() makes the later calls.
Threads == {"main", "timer"}

NoCall == [pc |-> "idle", since |-> None, changes |-> <<>>, i |-> 0,
           stats |-> EmptyStats(None), outcomes |-> <<>>]

InProgress == {th \in Threads : thread[th].pc \in {"loop", "finish"}}

\* SyncScheduler.start up to the start of the background thread
Start ==
    /\ ~ is_running
    /\ thread["main"].pc = "idle"
    /\ is_running' = TRUE
    /\ thread' = [thread EXCEPT !["main"].pc = "initial"]
    /\ UNCHANGED <<apivars, datavars, targetvars, last_sync_id, sched_stats, result, full, mapping, transform, nested>>

Returns(th) == IF th = "main" THEN [NoCall EXCEPT !.pc = "returned"] ELSE NoCall

\* _run_sync enters sync_incremental(last_sync_id=self.last_sync_id), which
\* reads the change log
RunBegin(th, read_fails) ==
    /\ is_running
    /\ thread[th].pc = IF th = "main" THEN "initial" ELSE "idle"
    /\ sched_stats.total_runs + sched_stats.failed_runs + Cardinality(InProgress)
          < MaxSchedRuns
    /\ IF read_fails
       THEN /\ sched_stats' = RecordFailure(sched_stats)
            /\ thread' = [thread EXCEPT ![th] = Returns(th)]
       ELSE LET changes == get_changes_since_last_sync(data_change_log, last_sync_id)
            IN /\ thread' = [thread EXCEPT ![th] =
                     [pc |-> IF changes = <<>> THEN "finish" ELSE "loop",
                      since |-> last_sync_id, changes |-> changes, i |-> 1,
                      stats |-> IF changes = <<>> THEN EmptyStats(last_sync_id)
                                ELSE StartStats(changes),
                      outcomes |-> <<>>]]
               /\ UNCHANGED sched_stats
    /\ UNCHANGED <<apivars, datavars, targetvars, last_sync_id, is_running, result, full, mapping, transform, nested>>

\* one iteration of the loop of sync_incremental on thread th
RunStep(th, fault) ==
    /\ thread[th].pc = "loop"
    /\ LET c == thread[th]
           run == ProcessChange([stats |-> c.stats, target |-> Target,
                                 outcomes |-> c.outcomes],
                                c.changes[c.i], hospital, SchedulerTenant, fault)
       IN /\ fhir_patient' = run.target.patient
          /\ fhir_encounter' = run.target.encounter
          /\ thread' = [thread EXCEPT ![th] =
                [c EXCEPT !.pc = IF c.i = Len(c.changes) THEN "finish" ELSE "loop",
                          !.i = c.i + 1,
                          !.stats = run.stats,
                          !.outcomes = run.outcomes]]
    /\ UNCHANGED <<apivars, datavars, last_sync_id, sched_stats, is_running, result, full, mapping, transform, nested>>

\* _run_sync after sync_incremental has returned: the cursor and the statistics
RunFinish(th) ==
    /\ thread[th].pc = "finish"
    /\ last_sync_id' = NextCursor(last_sync_id, thread[th].stats)
    /\ sched_stats' = RecordRun(sched_stats, thread[th].stats)
    /\ result' = [since |-> thread[th].since, changes |-> thread[th].changes,
                  outcomes |-> thread[th].outcomes, stats |-> thread[th].stats]
    /\ thread' = [thread EXCEPT ![th] = Returns(th)]
    /\ UNCHANGED <<apivars, datavars, targetvars, is_running, full, mapping, transform, nested>>

\* ------------------------------------------------- the sync entry points
\* routes/sync.py.  The handlers share sync_state and take no lock; a caller
\* is a thread of control that runs one handler at a time and can be
\* preempted between two statements of the handler.
Callers == {"c1", "c2"}
SyncTypes == {"full", "incremental"}
Limits == {None, 1}
ApiSinceIds == {None, SeqStart + 1}

\* the value of a stats slot: None, the dict sync_all returns or the dict
\* sync_incremental returns
NoStats == [kind |-> "None", full |-> ZeroFull, incremental |-> EmptyStats(None)]
FullStats(stats) == [NoStats EXCEPT !.kind = "full", !.full = stats]
IncrementalStats(stats) == [NoStats EXCEPT !.kind = "incremental", !.incremental = stats]

InitSyncState ==
    [is_syncing |-> FALSE, last_sync_time |-> None, last_sync_stats |-> NoStats,
     total_syncs |-> 0, sync_history |-> <<>>]

NoFrame == [pc |-> "idle", type |-> "none", tenant_id |-> 0, arg |-> None,
            started_at |-> None, stats |-> NoStats, response |-> 0]

\* the response leaves the handler; the frame is gone
Respond(f, code) == [NoFrame EXCEPT !.type = f.type, !.response = code]

\* callers between sync_state['is_syncing'] = True and the return of the run
Running == {c \in Callers : caller[c].pc = "run"}

\* if sync_state['is_syncing'] is taken for false whatever it holds
NeverBusy(st) == FALSE

\* if sync_state['is_syncing']:
Busy(st) == st.is_syncing

\* a request reaches trigger_full_sync / trigger_incremental_sync; arg is
\* request.limit or request.last_sync_id
Request(c, type, tenant_id, arg, runs) ==
    /\ caller[c].pc = "idle"
    /\ IF Busy(sync_state)
       THEN caller' = [caller EXCEPT ![c] = Respond([type |-> type], 409)]
       ELSE /\ clock + Cardinality({d \in Callers : caller[d].pc = "set"}) < runs
            /\ caller' = [caller EXCEPT ![c] =
                    [NoFrame EXCEPT !.pc = "set", !.type = type,
                                    !.tenant_id = tenant_id, !.arg = arg,
                                    !.response = caller[c].response]]
    /\ UNCHANGED <<datavars, targetvars, schedvars, sync_state, clock, result, full, mapping, transform, nested>>

\* one of the first MaxApiRuns trigger calls that are accepted
Trigger(c, type, tenant_id, arg) == Request(c, type, tenant_id, arg, MaxApiRuns)

\* sync_state['is_syncing'] = True; sync_id and started_at from the clock
SetBusy(c) ==
    /\ caller[c].pc = "set"
    /\ sync_state' = [sync_state EXCEPT !.is_syncing = TRUE]
    /\ clock' = clock + 1
    /\ caller' = [caller EXCEPT ![c].pc = "run", ![c].started_at = clock']
    /\ UNCHANGED <<datavars, targetvars, schedvars, result, full, mapping, transform, nested>>

\* pipeline.sync_all(limit=request.limit)
RunFull(c, patients, pfaults, encounters, efaults, raise_at) ==
    /\ caller[c].pc = "run"
    /\ caller[c].type = "full"
    /\ \E run \in {sync_all(Target, hospital, caller[c].tenant_id,
                             patients, pfaults, encounters, efaults, raise_at)} :
          /\ fhir_patient' = run.target.patient
          /\ fhir_encounter' = run.target.encounter
          /\ caller' = [caller EXCEPT ![c].pc = IF run.raised THEN "except" ELSE "clear",
                                      ![c].stats = IF run.raised THEN NoStats
                                                   ELSE FullStats(run.stats)]
    /\ UNCHANGED <<datavars, schedvars, sync_state, clock, result, full, mapping, transform, nested>>

\* sync.sync_incremental(last_sync_id=request.last_sync_id)
RunIncremental(c, read_fails, faults) ==
    /\ caller[c].pc = "run"
    /\ caller[c].type = "incremental"
    /\ IF read_fails
       THEN /\ caller' = [caller EXCEPT ![c].pc = "except"]
            /\ UNCHANGED targetvars
       ELSE \E run \in {sync_incremental(Target, hospital, data_change_log,
                                          caller[c].tenant_id, caller[c].arg, faults)} :
               /\ fhir_patient' = run.target.patient
               /\ fhir_encounter' = run.target.encounter
               /\ caller' = [caller EXCEPT ![c].pc = "clear",
                                           ![c].stats = IncrementalStats(run.stats)]
    /\ UNCHANGED <<datavars, schedvars, sync_state, clock, result, full, mapping, transform, nested>>

\* sync_state['is_syncing'] = False after the run
ClearBusy(c) ==
    /\ caller[c].pc = "clear"
    /\ sync_state' = [sync_state EXCEPT !.is_syncing = FALSE]
    /\ caller' = [caller EXCEPT ![c].pc = "record"]
    /\ UNCHANGED <<datavars, targetvars, schedvars, clock, result, full, mapping, transform, nested>>

\* last_sync_time, last_sync_stats, total_syncs += 1
RecordSync(c) ==
    /\ caller[c].pc = "record"
    /\ sync_state' = [sync_state EXCEPT !.last_sync_time = caller[c].started_at,
                                        !.last_sync_stats = caller[c].stats,
                                        !.total_syncs = @ + 1]
    /\ caller' = [caller EXCEPT ![c].pc = "append"]
    /\ UNCHANGED <<datavars, targetvars, schedvars, clock, result, full, mapping, transform, nested>>

HistoryEntry(f, now) ==
    [sync_id |-> <<f.type, f.started_at>>, type |-> f.type,
     started_at |-> f.started_at, completed_at |-> now, stats |-> f.stats]

\* sync_state['sync_history'].append({...})
AppendHistory(c) ==
    /\ caller[c].pc = "append"
    /\ sync_state' = [sync_state EXCEPT !.sync_history =
                          Append(@, HistoryEntry(caller[c], clock))]
    /\ caller' = [caller EXCEPT ![c].pc = "trim"]
    /\ UNCHANGED <<datavars, targetvars, schedvars, clock, result, full, mapping, transform, nested>>

\* sync_history[:HistoryLimit]
FirstEntries(h) ==
    IF Len(h) > HistoryLimit THEN SubSeq(h, 1, HistoryLimit) ELSE h

\* sync_history[-HistoryLimit:]
LastEntries(h) ==
    IF Len(h) > HistoryLimit THEN SubSeq(h, Len(h) - HistoryLimit + 1, Len(h)) ELSE h

\* the trimming of sync_history and the return of the handler
TrimAndReturn(c) ==
    /\ caller[c].pc = "trim"
    /\ sync_state' = [sync_state EXCEPT !.sync_history = LastEntries(@)]
    /\ caller' = [caller EXCEPT ![c] = Respond(caller[c], 200)]
    /\ UNCHANGED <<datavars, targetvars, schedvars, clock, result, full, mapping, transform, nested>>

\* the flag left as it is
FailSyncKeepsFlag(st) == st

\* except Exception: sync_state['is_syncing'] = False
FailSync(st) == [st EXCEPT !.is_syncing = FALSE]

\* the failed run counted as a sync
ExceptCounted(c) ==
    /\ caller[c].pc = "except"
    /\ sync_state' = [FailSync(sync_state) EXCEPT !.total_syncs = @ + 1]
    /\ caller' = [caller EXCEPT ![c] = Respond(caller[c], 500)]
    /\ UNCHANGED <<datavars, targetvars, schedvars, clock, result, full, mapping, transform, nested>>

\* the except branch of the handler: HTTPException(status_code=500)
Except(c) ==
    /\ caller[c].pc = "except"
    /\ sync_state' = FailSync(sync_state)
    /\ caller' = [caller EXCEPT ![c] = Respond(caller[c], 500)]
    /\ UNCHANGED <<datavars, targetvars, schedvars, clock, result, full, mapping, transform, nested>>

reset_sync_state ==
    /\ sync_state' = InitSyncState
    /\ UNCHANGED <<datavars, targetvars, schedvars, caller, clock, result, full, mapping, transform, nested>>

\* ---------------------------------------------------------- specification
InitHospital ==
    [tbl \in Tables |->
        IF tbl = "patients" THEN [i \in Ids(tbl) |-> i]
        ELSE IF tbl = "encounters" THEN [i \in Ids(tbl) |-> IF i = 1 THEN MaxPatients ELSE 0]
        ELSE [i \in Ids(tbl) |-> 0]]

\* SELECT MAX(change_id) FROM data_change_log; 0 when the log is empty
get_last_processed_change_id(log) ==
    IF log = {} THEN 0 ELSE Max({e.change_id : e \in log})

InitSched ==
    [total_runs |-> 0, successful_runs |-> 0, failed_runs |-> 0,
     total_changes_synced |-> 0, last_error |-> "None"]

Init ==
    /\ hospital = InitHospital
    /\ seq = SeqStart
    /\ data_change_log = {}
    /\ tx = [t \in Txns |-> NoTx]
    /\ triggers = [tbl \in Tables |-> {TriggerName(tbl)}]
    /\ setup_calls = [tbl \in Tables |-> 1]
    /\ fhir_patient = {}
    /\ fhir_encounter = {}
    /\ last_sync_id = get_last_processed_change_id(data_change_log)
    /\ sched_stats = InitSched
    /\ is_running = FALSE
    /\ thread = [th \in Threads |-> NoCall]
    /\ sync_state = InitSyncState
    /\ caller = [c \in Callers |-> NoFrame]
    /\ clock = 0
    /\ result = [since |-> None, changes |-> <<>>, outcomes |-> <<>>,
                 stats |-> EmptyStats(None)]
    /\ full = NoFull
    /\ nested = NoNested
    /\ mapping = NoMapping
    /\ transform = NoTransform

NumChanges(last) == Len(get_changes_since_last_sync(data_change_log, last))

\* Spec: concurrent hospital_db transactions, the capture trigger and the
\* periodic driver, whose runs are single steps in which no record fails
Next ==
    \/ \E t \in Txns, tbl \in Tables, op \in Operations :
         \E i \in Ids(tbl), p \in PatientIds :
            seq < SeqStart + MaxCaptured /\ Mutate(t, tbl, op, i, p)
    \/ \E t \in Txns : Commit(t)
    \/ \E t \in Txns : Rollback(t)
    \/ \E read_fails \in BOOLEAN :
         RunSync(read_fails, NoFaults(NumChanges(last_sync_id)))

Spec == Init /\ [][Next]_vars

\* SpecSync: hospital_db statements in autocommit and direct calls of
\* sync_incremental with any cursor value.  Patient 1 has been updated and
\* then deleted, and the change log holds the two events.
InitSyncLog ==
    LET row == [pk |-> 1, patient_id |-> 1]
    IN {log_table_changes("patients", "UPDATE", row, row, SeqStart + 1),
        log_table_changes("patients", "DELETE", row, NoRow, SeqStart + 2)}

InitSync ==
    /\ hospital = [InitHospital EXCEPT !["patients"][1] = 0]
    /\ seq = SeqStart + 2
    /\ data_change_log = InitSyncLog
    /\ tx = [t \in Txns |-> NoTx]
    /\ triggers = [tbl \in Tables |-> {TriggerName(tbl)}]
    /\ setup_calls = [tbl \in Tables |-> 1]
    /\ fhir_patient = {}
    /\ fhir_encounter = {}
    /\ last_sync_id = get_last_processed_change_id(data_change_log)
    /\ sched_stats = InitSched
    /\ is_running = FALSE
    /\ thread = [th \in Threads |-> NoCall]
    /\ sync_state = InitSyncState
    /\ caller = [c \in Callers |-> NoFrame]
    /\ clock = 0
    /\ result = [since |-> None, changes |-> <<>>, outcomes |-> <<>>,
                 stats |-> EmptyStats(None)]
    /\ full = NoFull
    /\ nested = NoNested
    /\ mapping = NoMapping
    /\ transform = NoTransform

NextSync ==
    \/ \E tbl \in Tables, op \in Operations :
         \E i \in Ids(tbl), p \in PatientIds :
            seq < SeqStart + 2 + MaxEvents /\ Autocommit("t1", tbl, op, i, p)
    \/ \E tenant_id \in Tenants, last \in SinceIds :
         \E faults \in FaultSeqs(NumChanges(last)) :
            SyncIncrementalCall(tenant_id, last, faults)

SpecSync == InitSync /\ [][NextSync]_vars

\* SpecSched: the periodic driver with its two threads, hospital_db
\* statements in autocommit
NextSched ==
    \/ Start
    \/ \E tbl \in Tables, op \in Operations :
         \E i \in Ids(tbl), p \in PatientIds :
            seq < SeqStart + MaxSchedEvents /\ Autocommit("t1", tbl, op, i, p)
    \/ \E th \in Threads, read_fails \in BOOLEAN : RunBegin(th, read_fails)
    \/ \E th \in Threads, fault \in Faults : RunStep(th, fault)
    \/ \E th \in Threads : RunFinish(th)

SpecSched == Init /\ [][NextSched]_vars

\* run_scheduler: while self.is_running: schedule.run_pending(); sleep(1).
\* The background thread makes its next call of _run_sync whenever one is due
\* and carries a call it has begun to its end.
SchedFairness ==
    /\ WF_vars(\E read_fails \in BOOLEAN : RunBegin("timer", read_fails))
    /\ WF_vars(\E fault \in Faults : RunStep("timer", fault))
    /\ WF_vars(RunFinish("timer"))

SpecSchedLive == SpecSched /\ SchedFairness

\* SpecApi: the sync entry points called by two callers, and the reset; the
\* data of hospital_db is that of SpecSync and does not change, no single
\* record fails, and a run as a whole completes or raises
NextApi ==
    \/ \E c \in Callers, tenant_id \in Tenants :
         \/ \E limit \in Limits : Trigger(c, "full", tenant_id, limit)
         \/ \E last \in ApiSinceIds : Trigger(c, "incremental", tenant_id, last)
    \/ \E c \in Callers : SetBusy(c)
    \/ \E c \in Callers, raise_at \in RaiseAt :
         \E patients \in Extracted(hospital, "patients", caller[c].arg),
            encounters \in Extracted(hospital, "encounters", caller[c].arg) :
            RunFull(c, patients, NoFaults(Len(patients)),
                    encounters, NoFaults(Len(encounters)), raise_at)
    \/ \E c \in Callers, read_fails \in BOOLEAN :
         RunIncremental(c, read_fails, NoFaults(NumChanges(caller[c].arg)))
    \/ \E c \in Callers : ClearBusy(c)
    \/ \E c \in Callers : RecordSync(c)
    \/ \E c \in Callers : AppendHistory(c)
    \/ \E c \in Callers : TrimAndReturn(c)
    \/ \E c \in Callers : Except(c)
    \/ reset_sync_state

SpecApi == InitSync /\ [][NextApi]_vars

\* SpecCapture: the capture setup run again, for any list of tables, beside
\* a hospital_db transaction; the change log holds the two events of SpecSync
NextCapture ==
    \/ \E table_names \in (SUBSET Tables) \ {{}} : setup_cdc_for_tables(table_names)
    \/ \E tbl \in Tables, op \in Operations :
         \E i \in Ids(tbl), p \in PatientIds :
            seq < SeqStart + 2 + MaxSetupEvents /\ Mutate("t1", tbl, op, i, p)
    \/ Commit("t1")
    \/ Rollback("t1")

SpecCapture == InitSync /\ [][NextCapture]_vars

\* SpecTarget: full syncs and incremental syncs of the whole change log in
\* which no record fails, and hospital_db statements in autocommit
NextTarget ==
    \/ \E tbl \in Tables, op \in Operations :
         \E i \in Ids(tbl), p \in PatientIds :
            seq < SeqStart + MaxTargetEvents /\ Autocommit("t1", tbl, op, i, p)
    \/ \E tenant_id \in Tenants :
         \E patients \in Extracted(hospital, "patients", None),
            encounters \in Extracted(hospital, "encounters", None) :
            SyncAllCall(tenant_id, patients, NoFaults(Len(patients)),
                        encounters, NoFaults(Len(encounters)))
    \/ \E tenant_id \in Tenants :
         SyncIncrementalCall(tenant_id, None, NoFaults(NumChanges(None)))

SpecTarget == Init /\ [][NextTarget]_vars

\* SpecFull: full syncs in which one record may fail, and hospital_db
\* statements in autocommit
NextFull ==
    \/ \E tbl \in Tables, op \in Operations :
         \E i \in Ids(tbl), p \in PatientIds :
            seq < SeqStart + MaxFullEvents /\ Autocommit("t1", tbl, op, i, p)
    \/ \E tenant_id \in Tenants :
         \E patients \in Extracted(hospital, "patients", None),
            encounters \in Extracted(hospital, "encounters", None) :
            \E f \in FullFaults(Len(patients), Len(encounters)) :
               SyncAllCall(tenant_id, patients, f.patients, encounters, f.encounters)

SpecFull == Init /\ [][NextFull]_vars

\* the limits of a full sync: none, or an integer from 0 on
FullLimits == {None} \cup (0 .. MaxLimit)

\* SpecLimit: full syncs with and without a limit in which no record fails,
\* and hospital_db statements in autocommit
NextLimit ==
    \/ \E tbl \in Tables, op \in Operations :
         \E i \in Ids(tbl), p \in PatientIds :
            seq < SeqStart + MaxLimitEvents /\ Autocommit("t1", tbl, op, i, p)
    \/ \E tenant_id \in Tenants, limit \in FullLimits :
         \E patients \in Extracted(hospital, "patients", limit),
            encounters \in Extracted(hospital, "encounters", limit) :
            SyncAllLimitCall(tenant_id, limit, patients, encounters)

SpecLimit == Init /\ [][NextLimit]_vars

\* SpecErrors: full and incremental syncs in which the processing of single
\* records fails, after at most MaxErrorSteps statements and full syncs
NextErrors ==
    \/ \E tbl \in Tables, op \in Operations :
         \E i \in Ids(tbl), p \in PatientIds :
            /\ (seq - SeqStart) + full.calls < MaxErrorSteps
            /\ Autocommit("t1", tbl, op, i, p)
    \/ \E tenant_id \in Tenants :
         \E patients \in Extracted(hospital, "patients", None),
            encounters \in Extracted(hospital, "encounters", None) :
            \E f \in FullFaults(Len(patients), Len(encounters)) :
               /\ (seq - SeqStart) + full.calls < MaxErrorSteps
               /\ SyncAllCall(tenant_id, patients, f.patients, encounters, f.encounters)
    \/ \E tenant_id \in Tenants :
         \E faults \in FaultSeqs(NumChanges(None)) :
            SyncIncrementalCall(tenant_id, None, faults)

SpecErrors == Init /\ [][NextErrors]_vars

\* the tenants of SpecTenant: every ETLPipeline and IncrementalSync reads the
\* same hospital_db, so two tenants hold records with the same source ids
TenantIds == {1, 2}

\* one sync run for a tenant in which no record fails: a full sync, or an
\* incremental sync of the whole change log
SyncRun(tenant_id) ==
    \/ \E patients \in Extracted(hospital, "patients", None),
          encounters \in Extracted(hospital, "encounters", None) :
          /\ (seq - SeqStart) + full.calls < MaxTenantSteps
          /\ SyncAllCall(tenant_id, patients, NoFaults(Len(patients)),
                         encounters, NoFaults(Len(encounters)))
    \/ SyncIncrementalCall(tenant_id, None, NoFaults(NumChanges(None)))

\* SpecTenant: full and incremental syncs for two tenants, after at most
\* MaxTenantSteps hospital_db statements in autocommit and full syncs
NextTenant ==
    \/ \E tbl \in Tables, op \in Operations :
         \E i \in Ids(tbl), p \in PatientIds :
            /\ (seq - SeqStart) + full.calls < MaxTenantSteps
            /\ Autocommit("t1", tbl, op, i, p)
    \/ \E tenant_id \in TenantIds : SyncRun(tenant_id)

SpecTenant == Init /\ [][NextTenant]_vars

\* SpecDriver: hospital_db statements in autocommit and the periodic driver,
\* whose runs follow one another and in which one record may fail
NextDriver ==
    \/ \E tbl \in Tables, op \in Operations :
         \E i \in Ids(tbl), p \in PatientIds :
            seq < SeqStart + MaxDriverEvents /\ Autocommit("t1", tbl, op, i, p)
    \/ \E read_fails \in BOOLEAN :
         \E faults \in FaultSeqs(NumChanges(last_sync_id)) :
            Tick(read_fails, faults)

SpecDriver == Init /\ [][NextDriver]_vars

\* SpecHistory: one caller whose trigger calls and resets follow one another,
\* each handler run to its return before the next request; up to
\* MaxHistoryRuns calls are accepted; a full sync completes, an incremental
\* sync completes or raises
Idle == \A c \in Callers : caller[c].pc = "idle"

NextHistory ==
    \/ \E type \in SyncTypes : Idle /\ Request("c1", type, SchedulerTenant, None, MaxHistoryRuns)
    \/ SetBusy("c1")
    \/ \E patients \in Extracted(hospital, "patients", None),
          encounters \in Extracted(hospital, "encounters", None) :
          RunFull("c1", patients, NoFaults(Len(patients)),
                  encounters, NoFaults(Len(encounters)), "none")
    \/ \E read_fails \in BOOLEAN :
         RunIncremental("c1", read_fails, NoFaults(NumChanges(None)))
    \/ ClearBusy("c1")
    \/ RecordSync("c1")
    \/ AppendHistory("c1")
    \/ TrimAndReturn("c1")
    \/ Except("c1")
    \/ Idle /\ reset_sync_state

SpecHistory == InitSync /\ [][NextHistory]_vars

\* SpecLive: hospital_db statements in autocommit, which stop while two runs
\* of the driver are still to come, and the runs of the background thread.
\* run_scheduler calls schedule.run_pending() every second for as long as
\* is_running holds, so a run that is due is made; a read of the change log
\* that raises is followed by reads that succeed.
NextLive ==
    \/ \E tbl \in Tables, op \in Operations :
         \E i \in Ids(tbl), p \in PatientIds :
            /\ seq < SeqStart + MaxLiveEvents
            /\ sched_stats.total_runs + 1 < MaxLiveRuns
            /\ Autocommit("t1", tbl, op, i, p)
    \/ \E read_fails \in BOOLEAN : LiveTick(read_fails)

SpecLive == Init /\ [][NextLive]_vars /\ WF_vars(LiveTick(FALSE))

\* SpecMap: a row of patients, any of its nullable columns None, any dict or
\* a batch of patients is mapped
InitMap ==
    /\ hospital = InitHospital
    /\ seq = SeqStart
    /\ data_change_log = {}
    /\ tx = [t \in Txns |-> NoTx]
    /\ triggers = [tbl \in Tables |-> {TriggerName(tbl)}]
    /\ setup_calls = [tbl \in Tables |-> 1]
    /\ fhir_patient = {}
    /\ fhir_encounter = {}
    /\ last_sync_id = get_last_processed_change_id(data_change_log)
    /\ sched_stats = InitSched
    /\ is_running = FALSE
    /\ thread = [th \in Threads |-> NoCall]
    /\ sync_state = InitSyncState
    /\ caller = [c \in Callers |-> NoFrame]
    /\ clock = 0
    /\ result = [since |-> None, changes |-> <<>>, outcomes |-> <<>>,
                 stats |-> EmptyStats(None)]
    /\ full = NoFull
    /\ nested = NoNested
    /\ mapping = NoMapping
    /\ transform = NoTransform

NextMap ==
    \/ \E record \in Records : MapPatient(record)
    \/ \E record \in AnyRecords : MapRecord(record)
    \/ \E n \in 1..MaxBatch :
         \E patients \in [1..n -> BatchRecords], raises \in [1..n -> BOOLEAN] :
            TransformPatients(patients, raises)

SpecMap == InitMap /\ [][NextMap]_vars

\* SpecTransform: one transformation is called with None or a string
InitTransform ==
    /\ hospital = InitHospital
    /\ seq = SeqStart
    /\ data_change_log = {}
    /\ tx = [t \in Txns |-> NoTx]
    /\ triggers = [tbl \in Tables |-> {TriggerName(tbl)}]
    /\ setup_calls = [tbl \in Tables |-> 1]
    /\ fhir_patient = {}
    /\ fhir_encounter = {}
    /\ last_sync_id = get_last_processed_change_id(data_change_log)
    /\ sched_stats = InitSched
    /\ is_running = FALSE
    /\ thread = [th \in Threads |-> NoCall]
    /\ sync_state = InitSyncState
    /\ caller = [c \in Callers |-> NoFrame]
    /\ clock = 0
    /\ result = [since |-> None, changes |-> <<>>, outcomes |-> <<>>,
                 stats |-> EmptyStats(None)]
    /\ full = NoFull
    /\ nested = NoNested
    /\ mapping = NoMapping
    /\ \E transformation \in Transformations, value \in Inputs :
          transform = [NoTransform EXCEPT !.transformation = transformation,
                                          !.value = value]

NextTransform == Transform

SpecTransform == InitTransform /\ [][NextTransform]_vars

\* SpecNested: up to MaxWrites calls of set_nested_value with the paths
\* "x[n].y" and "x[n]", the first into a document that has no x
InitNested ==
    /\ hospital = InitHospital
    /\ seq = SeqStart
    /\ data_change_log = {}
    /\ tx = [t \in Txns |-> NoTx]
    /\ triggers = [tbl \in Tables |-> {TriggerName(tbl)}]
    /\ setup_calls = [tbl \in Tables |-> 1]
    /\ fhir_patient = {}
    /\ fhir_encounter = {}
    /\ last_sync_id = get_last_processed_change_id(data_change_log)
    /\ sched_stats = InitSched
    /\ is_running = FALSE
    /\ thread = [th \in Threads |-> NoCall]
    /\ sync_state = InitSyncState
    /\ caller = [c \in Callers |-> NoFrame]
    /\ clock = 0
    /\ result = [since |-> None, changes |-> <<>>, outcomes |-> <<>>,
                 stats |-> EmptyStats(None)]
    /\ full = NoFull
    /\ mapping = NoMapping
    /\ transform = NoTransform
    /\ \E obj \in NewDocuments : nested = [NoNested EXCEPT !.result = obj]

NextNested ==
    \E path \in IndexedPaths, value \in Written \cup {NullValue} :
        SetNestedValue(path, value)

SpecNested == InitNested /\ [][NextNested]_vars

\* SpecMerge: the field mappings of PATIENT_MAPPING applied to one row in
\* every order
InitMerge ==
    /\ hospital = InitHospital
    /\ seq = SeqStart
    /\ data_change_log = {}
    /\ tx = [t \in Txns |-> NoTx]
    /\ triggers = [tbl \in Tables |-> {TriggerName(tbl)}]
    /\ setup_calls = [tbl \in Tables |-> 1]
    /\ fhir_patient = {}
    /\ fhir_encounter = {}
    /\ last_sync_id = get_last_processed_change_id(data_change_log)
    /\ sched_stats = InitSched
    /\ is_running = FALSE
    /\ thread = [th \in Threads |-> NoCall]
    /\ sync_state = InitSyncState
    /\ caller = [c \in Callers |-> NoFrame]
    /\ clock = 0
    /\ result = [since |-> None, changes |-> <<>>, outcomes |-> <<>>,
                 stats |-> EmptyStats(None)]
    /\ full = NoFull
    /\ mapping = NoMapping
    /\ transform = NoTransform
    /\ \E record \in MergeRecords :
          nested = [NoNested EXCEPT !.result = NewResource("Patient"),
                                    !.record = record]

NextMerge == \E k \in DOMAIN PATIENT_MAPPING : WriteField(k)

SpecMerge == InitMerge /\ [][NextMerge]_vars

\* SpecApply: apply_transformation is called with None or a string and the
\* name of a transformation, of another attribute of the class, or of none
InitApply ==
    /\ hospital = InitHospital
    /\ seq = SeqStart
    /\ data_change_log = {}
    /\ tx = [t \in Txns |-> NoTx]
    /\ triggers = [tbl \in Tables |-> {TriggerName(tbl)}]
    /\ setup_calls = [tbl \in Tables |-> 1]
    /\ fhir_patient = {}
    /\ fhir_encounter = {}
    /\ last_sync_id = get_last_processed_change_id(data_change_log)
    /\ sched_stats = InitSched
    /\ is_running = FALSE
    /\ thread = [th \in Threads |-> NoCall]
    /\ sync_state = InitSyncState
    /\ caller = [c \in Callers |-> NoFrame]
    /\ clock = 0
    /\ result = [since |-> None, changes |-> <<>>, outcomes |-> <<>>,
                 stats |-> EmptyStats(None)]
    /\ full = NoFull
    /\ mapping = NoMapping
    /\ nested = NoNested
    /\ \E transformation \in AttributeNames, value \in Inputs :
          transform = [NoTransform EXCEPT !.transformation = transformation,
                                          !.value = value]

NextApply == ApplyTransformation

SpecApply == InitApply /\ [][NextApply]_vars

\* ------------------------------------------------------------------ claims
\* the change ids of the log that are greater than a cursor value
NewerIds(log, last) == {e.change_id : e \in {o \in log : o.change_id > last}}

ChangeIds(changes) == {changes[i].change_id : i \in 1..Len(changes)}

\* the row an event refers to by (table_name, record_id) is in hospital_db
ReferencedRowExists(h, change) ==
    change.operation = "DELETE" \/ RowExists(h, change.table_name, change.record_id)

\* the fields of sync_state other than the busy flag
Account(st) == <<st.last_sync_time, st.last_sync_stats, st.total_syncs, st.sync_history>>

C3_FlagIsCleared ==
    sync_state.is_syncing => \E c \in Callers : caller[c].pc \in {"run", "clear", "except"}

\* C3 witness: a caller whose call ended in an error (500) had its next
\* trigger call accepted and is running again.
C3_Witness ==
    \E c \in Callers : caller[c].response = 500 /\ caller[c].pc = "run"

\* C4: a call whose run raises ends with the response 500 and does not
\* change total_syncs, last_sync_time, last_sync_stats or sync_history; these
\* change only by a step of a caller whose run has completed, or by a reset.
C4_FailedRunLeavesAccount ==
    [][/\ \A c \in Callers :
            (caller'[c] # caller[c] /\ (caller[c].pc = "except" \/ caller'[c].pc = "except"))
            => /\ Account(sync_state') = Account(sync_state)
               /\ caller[c].pc = "except" => caller'[c].response = 500
       /\ Account(sync_state') # Account(sync_state)
            => \/ sync_state' = InitSyncState
               \/ \E c \in Callers : /\ caller[c].pc \in {"record", "append", "trim"}
                                     /\ caller'[c] # caller[c]]_vars

\* C4 witness: one run had completed and been counted; a later call failed
\* (500) and the counter and the history still hold that one run.
C4_Witness ==
    \E c \in Callers :
        /\ caller[c].response = 500 /\ caller[c].pc = "idle"
        /\ sync_state.total_syncs = 1
        /\ Len(sync_state.sync_history) = 1
        /\ sync_state.last_sync_stats # NoStats

\* C5: change events become visible in increasing change_id order: an event
\* that becomes visible has a change_id greater than that of every event a
\* reader could already have observed, so no event appears below a cursor.
C5_VisibleInChangeIdOrder ==
    [][\A e \in data_change_log' \ data_change_log :
          /\ \A o \in data_change_log : e.change_id > o.change_id
          /\ e.change_id > last_sync_id]_vars

\* C6: the cursor of the periodic driver never decreases across its runs,
\* successful or failed, and the last_change_id a sync_incremental call
\* returns is never smaller than the sinceId it was given.
C6_CursorNeverDecreases ==
    [][/\ last_sync_id' >= last_sync_id
       /\ (result' # result /\ result'.since # None
              => result'.stats.last_change_id >= result'.since)]_vars

\* C7: sync_incremental(sinceId) returns as last_change_id the greatest
\* change_id of the log that is greater than sinceId, and sinceId itself
\* when the log has no such event.
C7_LastChangeIdIsGreatestRead ==
    [][result' # result =>
         LET newer == NewerIds(data_change_log', result'.since)
         IN /\ ChangeIds(result'.changes) = newer
            /\ result'.stats.last_change_id =
                  IF newer = {} THEN result'.since ELSE Max(newer)]_vars

\* C7 witness: the events SeqStart+1 .. SeqStart+3 (5, 6, 7) were read with
\* sinceId = SeqStart (4) and last_change_id = SeqStart+3 (7) was returned.
C7_Witness ==
    /\ result.since = SeqStart
    /\ ChangeIds(result.changes) = (SeqStart + 1) .. (SeqStart + 3)
    /\ result.stats.last_change_id = SeqStart + 3

\* C8: in the result of a non-empty run total_changes is the number of
\* events read, by_table and by_operation each sum to it, and synced +
\* errors = total_changes; when every event is for patients or encounters,
\* every row an event refers to exists and no processing raised, synced =
\* total_changes and errors = 0.
C8_CountsAddUp ==
    [][result' # result /\ result'.changes # <<>> =>
         LET r == result'
             n == Len(r.changes)
         IN /\ r.stats.total_changes = n
            /\ SumOver(r.stats.by_table, Tables) = n
            /\ SumOver(r.stats.by_operation, Operations) = n
            /\ r.stats.synced + r.stats.errors = n
            /\ (\A i \in 1..n :
                   /\ r.changes[i].table_name \in {"patients", "encounters"}
                   /\ ReferencedRowExists(hospital', r.changes[i])
                   /\ r.outcomes[i] # "error")
               => r.stats.synced = n /\ r.stats.errors = 0]_vars

\* C8 witness: a run over two events of two tables, every row existing, with
\* synced = total_changes = 2.
C8_Witness ==
    /\ Len(result.changes) = 2
    /\ result.changes[1].table_name # result.changes[2].table_name
    /\ \A i \in 1..2 : result.outcomes[i] \in {"synced", "deleted"}
    /\ result.stats.synced = 2
    /\ result.stats.errors = 0

\* C9: an INSERT or UPDATE event whose source row is gone at re-fetch time
\* adds neither to synced nor to errors, so synced + errors falls short of
\* total_changes by the number of such events, and every event of the batch
\* is still processed.
C9_NotFoundIsNotAnError ==
    [][result' # result /\ result'.changes # <<>> =>
         LET r == result'
             gone == {i \in 1..Len(r.changes) :
                        /\ r.changes[i].table_name \in {"patients", "encounters"}
                        /\ ~ ReferencedRowExists(hospital', r.changes[i])
                        /\ r.outcomes[i] # "error"}
         IN /\ Len(r.outcomes) = Len(r.changes)
            /\ r.stats.synced + r.stats.errors
                  = r.stats.total_changes - Cardinality(gone)]_vars

\* C10: the record_id of every change event is the primary key of the row
\* that was mutated in table_name.
C10_RecordIdIsPrimaryKey ==
    \A e \in data_change_log :
        e.record_id = IF e.operation = "DELETE" THEN e.old_data.pk ELSE e.new_data.pk

\* the row of table tbl with primary key i, as an event snapshot
Snapshot(h, tbl, i) ==
    IF RowExists(h, tbl, i) THEN [pk |-> i, patient_id |-> h[tbl][i]] ELSE NoRow

\* the primary key of the row an event was captured for
EventPk(e) == IF e.operation = "DELETE" THEN e.old_data.pk ELSE e.new_data.pk

\* C11: every committed mutation of a row of a monitored table has exactly
\* one change event, of the same table and operation, made visible by the
\* same step as the mutation; a rolled back transaction leaves no event and
\* no mutation; no event becomes visible without its mutation committed.
C11_EventAndMutationTogether ==
    [][/\ data_change_log \subseteq data_change_log'
       /\ \A tbl \in Tables : \A i \in Ids(tbl) :
             hospital'[tbl][i] # hospital[tbl][i]
             => \E e \in data_change_log' \ data_change_log :
                   /\ e.table_name = tbl /\ EventPk(e) = i
                   /\ data_change_log' \ data_change_log = {e}
       /\ \A e \in data_change_log' \ data_change_log :
             /\ e.old_data = Snapshot(hospital, e.table_name, EventPk(e))
             /\ e.new_data = Snapshot(hospital', e.table_name, EventPk(e))
             /\ e.operation = (IF e.old_data = NoRow THEN "INSERT"
                               ELSE IF e.new_data = NoRow THEN "DELETE" ELSE "UPDATE")
             /\ \A tbl \in Tables : \A i \in Ids(tbl) :
                   hospital'[tbl][i] # hospital[tbl][i] => tbl = e.table_name /\ i = EventPk(e)
       /\ \A t \in Txns :
             (tx[t].active /\ ~ tx'[t].active)
             => \/ /\ data_change_log' = data_change_log
                   /\ hospital' = hospital
                \/ /\ data_change_log' \ data_change_log = tx[t].events
                   /\ Cardinality(tx[t].events) = 1]_vars

\* C11 witness: one transaction was rolled back and another committed; of the
\* two events captured only that of the committed one is in the log.
C11_Witness ==
    /\ \A t \in Txns : ~ tx[t].active
    /\ seq = SeqStart + 2
    /\ Cardinality(data_change_log) = 1

\* C12: running the capture setup again keeps the events of the log,
\* leaves exactly one trigger on every table it was run for, and a mutation
\* committed afterwards appends exactly one event.
C12_SetupIsIdempotent ==
    [][/\ setup_calls' # setup_calls => data_change_log' = data_change_log /\ seq' = seq
       /\ \A tbl \in Tables : setup_calls'[tbl] >= 1 => Cardinality(triggers'[tbl]) = 1
       /\ seq' # seq => seq' = seq + 1
       /\ hospital' # hospital
             => Cardinality(data_change_log' \ data_change_log) = 1]_vars

\* C12 witness: the setup ran MaxSetups times for table patients, the two
\* events its log held are still there, and a mutation of the table has added
\* one more event.
C12_Witness ==
    /\ setup_calls["patients"] = MaxSetups
    /\ InitSyncLog \subseteq data_change_log
    /\ Cardinality({e \in data_change_log : e.table_name = "patients"}) = 3

\* the inputs of a read of the change log
ReadLimits == 1..MaxLimit
ReadTables == Tables \cup {NoTable}

\* a read result: events newer than since, of the table asked for, in
\* strictly ascending change_id order, at most limit of them
ReadOk(rows, since, table_name, limit) ==
    /\ \A i \in 1..Len(rows) :
          /\ since # None => rows[i].change_id > since
          /\ table_name # NoTable => rows[i].table_name = table_name
    /\ \A i, j \in 1..Len(rows) : i < j => rows[i].change_id < rows[j].change_id
    /\ Len(rows) <= limit

\* the adapter's get_changes meets the read contract for every input
AdapterReadOk ==
    \A since \in SinceIds, table_name \in ReadTables, limit \in ReadLimits :
        ReadOk(get_changes(data_change_log, since, table_name, limit),
               since, table_name, limit)

\* C13: a read of the change log returns only events with change_id greater
\* than sinceId (of the given table when one is given), in strictly
\* ascending change_id order and at most limit of them, by the adapter's
\* get_changes and by the operation behind /cdc/changes (which has no sinceId).
C13_ReadIsAscendingAfterSince ==
    /\ AdapterReadOk
    /\ \A table_name \in ReadTables, limit \in ReadLimits :
          ReadOk(get_recent_changes(data_change_log, table_name, limit),
                 None, table_name, limit)

\* the target rows of a table, as (tenant, source id) keys
TargetKeys(T, tbl) ==
    IF tbl = "patients"
    THEN {<<r.tenant_id, r.source_patient_id>> : r \in T.patient}
    ELSE {<<r.tenant_id, r.source_encounter_id>> : r \in T.encounter}

\* event i of a batch is a DELETE of a patient or an encounter
IsDelete(change) ==
    change.operation = "DELETE" /\ change.table_name \in {"patients", "encounters"}

\* C14: a DELETE event for record R of patients or encounters that was
\* processed is counted as synced, and after the run the target table holds
\* no record keyed (tenant, R), unless a later event of the batch loaded R
\* again; a run of DELETE events whose target records are all absent counts
\* them as synced and leaves the target store as it was.
C14_DeleteRemovesTarget ==
    [][result' # result =>
         LET r == result'
             n == Len(r.changes)
             T == [patient |-> fhir_patient', encounter |-> fhir_encounter']
         IN \A tenant_id \in Tenants :
              /\ \A i \in 1..n :
                    (IsDelete(r.changes[i]) /\ r.outcomes[i] # "error")
                    => /\ r.outcomes[i] = "deleted"
                       /\ (\A j \in (i + 1)..n :
                              ~ (/\ r.changes[j].table_name = r.changes[i].table_name
                                 /\ r.changes[j].record_id = r.changes[i].record_id
                                 /\ r.changes[j].operation # "DELETE"))
                          => <<tenant_id, to_string(r.changes[i].record_id)>>
                                \notin TargetKeys(T, r.changes[i].table_name)
              /\ (/\ n > 0
                  /\ \A i \in 1..n :
                        /\ IsDelete(r.changes[i]) /\ r.outcomes[i] # "error"
                        /\ <<tenant_id, to_string(r.changes[i].record_id)>>
                              \notin TargetKeys(Target, r.changes[i].table_name))
                 => /\ T = Target
                    /\ r.stats.synced = n /\ r.stats.errors = 0]_vars

\* C14 witness: the last full sync loaded patient 1; its DELETE event was
\* then processed and counted as synced, and the target store holds patient
\* MaxPatients and no longer patient 1.
C14_Witness ==
    /\ 1 \in full.extracted.patients
    /\ \E i \in 1..Len(result.changes) :
          /\ result.changes[i].table_name = "patients"
          /\ result.changes[i].operation = "DELETE"
          /\ result.changes[i].record_id = 1
          /\ result.outcomes[i] = "deleted"
    /\ result.stats.synced >= 1
    /\ TargetKeys(Target, "patients") = {<<full.tenant_id, to_string(MaxPatients)>>}

\* no two rows of a target table have the same (tenant, source id)
UniqueKeys(T) ==
    /\ \A a, b \in T.patient :
          (a.tenant_id = b.tenant_id /\ a.source_patient_id = b.source_patient_id) => a = b
    /\ \A a, b \in T.encounter :
          (a.tenant_id = b.tenant_id /\ a.source_encounter_id = b.source_encounter_id) => a = b

\* C15: after any full or incremental sync every (tenant, source id) has at
\* most one target patient and at most one target encounter, and a full sync
\* that runs directly after a full sync of the same tenant, with the source
\* rows and the target store as that sync left them, leaves the target store
\* with exactly the same records, whatever the order of the extracted rows.
C15_FullSyncIsIdempotent ==
    [][/\ UniqueKeys([patient |-> fhir_patient', encounter |-> fhir_encounter'])
       /\ (/\ full' # full /\ full.calls >= 1
           /\ full'.tenant_id = full.tenant_id
           /\ hospital = full.source /\ Target = full.target)
          => (fhir_patient' = fhir_patient /\ fhir_encounter' = fhir_encounter)]_vars

\* C15 witness: sync_all ran MaxFullRuns times over the unchanged rows of
\* Init, and the target store holds each patient and encounter 1 once.
C15_Witness ==
    /\ full.calls = MaxFullRuns
    /\ hospital = InitHospital /\ seq = SeqStart
    /\ hospital = full.source /\ Target = full.target
    /\ Cardinality(fhir_patient) = MaxPatients
    /\ Cardinality(fhir_encounter) = 1

\* the fhir_encounter row that holds the mapping of source row i
MappedEncounter(h, tenant_id, i) ==
    LET fhir == map_encounter_to_fhir([pk |-> i, patient_id |-> h["encounters"][i]])
    IN [tenant_id |-> tenant_id, source_encounter_id |-> fhir.id,
        patient_id |-> ReferenceId(fhir.subject)]

\* C16: after a full sync in which no record failed, the target row of every
\* extracted encounter equals the mapping of the current source row: an
\* upsert that meets an existing row overwrites every mapped field.
C16_UpsertOverwritesMappedFields ==
    [][full' # full =>
         \A i \in full'.extracted.encounters : \A r \in fhir_encounter' :
            (r.tenant_id = full'.tenant_id /\ r.source_encounter_id = to_string(i))
            => r = MappedEncounter(hospital', full'.tenant_id, i)]_vars

\* the records of a batch that were given no fault
NotFailed(tbl) == full.extracted[tbl] \ {f[1] : f \in full.failed[tbl]}

\* C17: in a full sync the failure of one record (its mapping or its write)
\* adds one to errors of its entity and nothing else fails: every other
\* record of the batch that succeeds on its own is written and committed.
C17_OneFailureSkipsOneRecord ==
    [][full' # full =>
         LET T == [patient |-> fhir_patient', encounter |-> fhir_encounter']
             h == hospital'
             t == full'.tenant_id
         IN /\ \A tbl \in {"patients", "encounters"} :
                  full'.stats[tbl].errors = Cardinality(full'.failed[tbl])
            /\ \A i \in NotFailed("patients")' :
                  LoadPatient(Target, t, MapRow("patients", h, i), FALSE).patient
                     \subseteq T.patient
            /\ \A i \in NotFailed("encounters")' :
                  LoadEncounter([patient |-> T.patient, encounter |-> fhir_encounter],
                                t, MapRow("encounters", h, i), FALSE).encounter
                     \subseteq T.encounter]_vars

\* C18: every target encounter of a tenant references a target patient that
\* exists for the same tenant, in every state reached by full and incremental
\* syncs.
C18_NoOrphanedEncounters ==
    \A e \in fhir_encounter :
        \E fp \in fhir_patient :
            fp.tenant_id = e.tenant_id /\ fp.source_patient_id = e.patient_id

\* the _run_sync calls made so far, finished or not
RunsStarted ==
    sched_stats.total_runs + sched_stats.failed_runs + Cardinality(InProgress)

\* C19: a run of the periodic driver that raises adds one to failed_runs,
\* sets last_error and leaves the cursor and is_running as they were; every
\* run that begins reads the change log from the current cursor; and after a
\* failed run the driver begins a further run (as long as the run bound of
\* the model allows one).
C19_FailedRunIsRetried ==
    /\ [][/\ sched_stats'.failed_runs # sched_stats.failed_runs
             => /\ sched_stats'.failed_runs = sched_stats.failed_runs + 1
                /\ sched_stats'.last_error = "error"
                /\ last_sync_id' = last_sync_id
                /\ is_running /\ is_running'
          /\ \A th \in Threads :
                (th \in InProgress' /\ th \notin InProgress)
                => /\ thread'[th].since = last_sync_id
                   /\ thread'[th].changes
                         = get_changes_since_last_sync(data_change_log, last_sync_id)]_vars
    /\ \A n \in 1..(MaxSchedRuns - 1) :
          (sched_stats.failed_runs >= 1 /\ RunsStarted = n) ~> (RunsStarted > n)

\* C19 witness: one run failed, and the run after it read the change log
\* from the cursor the failed run had (0) and synced the events it found.
C19_Witness ==
    /\ sched_stats.failed_runs = 1
    /\ sched_stats.total_runs = 1
    /\ sched_stats.last_error = "None"
    /\ result.since = 0
    /\ result.changes # <<>>
    /\ last_sync_id = SeqStart + 1

\* the target paths of the fields of the mapped record that are not None
WrittenPaths ==
    {PATIENT_MAPPING[k].target_path :
        k \in {j \in DOMAIN PATIENT_MAPPING :
                  mapping.record[PATIENT_MAPPING[j].source_field] # Null}}

\* C20: a source field that is None creates nothing in the mapped document:
\* every key, list, dict and list element of the document lies on the target
\* path of a field that is not None (or is resourceType), also when a field
\* that is not None writes to a higher index of the same list.
C20_NullCreatesNothing ==
    mapping.fhir_resource # {}
    => \A n \in mapping.fhir_resource :
          \/ n.path = <<KeyPart("resourceType")>>
          \/ \E path \in WrittenPaths : IsPrefix(n.path, path)

\* a value that is no key of the dict d, whatever its case
Unmapped(d, value) == value.none \/ ~ \E p \in d : p[1] = lower(value.s)

\* C21: every registry transformation returns and does not raise;
\* normalize_gender returns male, female, other or unknown; an input that is
\* not a mapped token gives AMB from map_encounter_class, unknown from
\* map_encounter_status and map_medication_status and N from
\* map_abnormal_flag; to_decimal gives None for an input float() rejects.
C21_TransformationsAreTotal ==
    transform.result # NoResult =>
       LET t == transform.transformation
           value == transform.value
           r == transform.result
       IN /\ r.kind # "raised"
          /\ t = "normalize_gender"
                => r \in {Str("male"), Str("female"), Str("other"), Str("unknown")}
          /\ (t = "map_encounter_class" /\ Unmapped(EncounterClasses, value))
                => r = Str("AMB")
          /\ (t = "map_encounter_status" /\ Unmapped(EncounterStatuses, value))
                => r = Str("unknown")
          /\ (t = "map_medication_status" /\ Unmapped(MedicationStatuses, value))
                => r = Str("unknown")
          /\ (t = "map_abnormal_flag" /\ Unmapped(AbnormalFlags, value))
                => r = Str("N")
          /\ (t = "to_decimal" /\ (value.none \/ float(value).kind = "raised"))
                => r = RNone

\* the events of the batch r other than i that concern the same record as
\* event i
SameRecord(r, i) ==
    {j \in 1..Len(r.changes) :
        /\ j # i
        /\ r.changes[j].table_name = r.changes[i].table_name
        /\ r.changes[j].record_id = r.changes[i].record_id}

\* C22: when the mapping of a record raises, no document exists for the
\* record: a full sync counts it once in errors, not in transformed, and a
\* run of incremental sync counts its event once in errors; neither writes
\* the record to the target store, whose row for the record's key is as it
\* was before the run.
C22_MappingFailureSkipsRecord ==
    [][/\ full' # full =>
            \A tbl \in {"patients", "encounters"} : \A f \in full'.failed[tbl] :
               f[2] = "map" =>
                  /\ full'.stats[tbl].errors = 1
                  /\ full'.stats[tbl].transformed = full'.stats[tbl].extracted - 1
                  /\ full'.stats[tbl].loaded = full'.stats[tbl].extracted - 1
                  /\ \A tenant_id \in Tenants :
                        <<tenant_id, to_string(f[1])>> \in TargetKeys(Target', tbl)
                        <=> <<tenant_id, to_string(f[1])>> \in TargetKeys(Target, tbl)
       /\ result' # result =>
            LET r == result'
                n == Len(r.changes)
            IN /\ r.stats.errors
                    = Cardinality({i \in 1..n : r.outcomes[i] \notin {"synced", "deleted"}})
               /\ \A i \in 1..n :
                     (/\ r.outcomes[i] = "error" /\ r.changes[i].operation # "DELETE"
                      /\ \A j \in SameRecord(r, i) :
                            r.outcomes[j] \in {"error", "not_found"})
                     => \A tenant_id \in Tenants :
                           <<tenant_id, to_string(r.changes[i].record_id)>>
                              \in TargetKeys(Target', r.changes[i].table_name)
                           <=> <<tenant_id, to_string(r.changes[i].record_id)>>
                                  \in TargetKeys(Target, r.changes[i].table_name)]_vars

\* C22 witness: the mapping of an encounter raised in the last full sync,
\* which counted one error and did not write it, and the mapping of an
\* updated row raised in the last incremental run, which counted one error.
C22_Witness ==
    /\ \E f \in full.failed["encounters"] :
          /\ f[2] = "map"
          /\ <<full.tenant_id, to_string(f[1])>> \notin TargetKeys(Target, "encounters")
    /\ full.stats.encounters.errors = 1
    /\ full.stats.patients.loaded = MaxPatients
    /\ \E i \in 1..Len(result.changes) :
          /\ result.outcomes[i] = "error"
          /\ result.changes[i].operation = "UPDATE"
    /\ result.stats.errors = 1

\* the document d has resourceType target_resource
HasResourceType(d, target_resource) ==
    {n \in d : n.path = <<KeyPart("resourceType")>>}
       = {Node(<<KeyPart("resourceType")>>, "value",
               Value(NoTransformation, target_resource))}

\* C23: every document map_record builds with the patient mapping has
\* resourceType Patient, that of the empty record included, and
\* transform_patients returns one such document for each patient it is
\* given when no mapping raises.
C23_EveryDocumentHasResourceType ==
    /\ mapping.fhir_resource # {} => HasResourceType(mapping.fhir_resource, "Patient")
    /\ (mapping.fhir_resource # {} /\ mapping.record = EmptyRecord)
          => Cardinality(mapping.fhir_resource) = 1
    /\ \A k \in DOMAIN mapping.fhir_patients :
          HasResourceType(mapping.fhir_patients[k], "Patient")
    /\ Len(mapping.fhir_patients) = mapping.stats.transformed
    /\ mapping.stats.transformed + mapping.stats.errors = Len(mapping.patients)
    /\ mapping.stats.errors = 0 => Len(mapping.fhir_patients) = Len(mapping.patients)

\* C23 witness: transform_patients returned MaxBatch documents for MaxBatch
\* patients.
C23_Witness ==
    /\ Len(mapping.patients) = MaxBatch
    /\ Len(mapping.fhir_patients) = MaxBatch
    /\ mapping.stats.errors = 0
    /\ \A k \in 1..MaxBatch : HasResourceType(mapping.fhir_patients[k], "Patient")

\* C24: a run of incremental sync dispatches the events it read one after
\* the other in strictly ascending change_id order, so the event with the
\* greatest change_id for a record is the last to act on it: when that event
\* is a DELETE that was carried out the record is absent after the run, and
\* the last event dispatched is the one the run reports as last_change_id.
C24_DispatchInChangeIdOrder ==
    [][result' # result =>
         LET r == result'
             n == Len(r.changes)
         IN /\ \A i \in 1..(n - 1) : r.changes[i].change_id < r.changes[i + 1].change_id
            /\ Len(r.outcomes) = n
            /\ n > 0 => r.stats.last_change_id = Max(ChangeIds(r.changes))
            /\ \A i \in 1..n :
                  (/\ r.outcomes[i] = "deleted"
                   /\ \A j \in SameRecord(r, i) :
                         r.changes[j].change_id < r.changes[i].change_id)
                  => \A tenant_id \in Tenants :
                        <<tenant_id, to_string(r.changes[i].record_id)>>
                           \notin TargetKeys(Target', r.changes[i].table_name)]_vars

\* C24 witness: one run dispatched UPDATE, DELETE and INSERT of patient 1 in
\* this order; the row inserted last is in the target store.
C24_Witness ==
    /\ Len(result.changes) = 3
    /\ \A i \in 1..3 : result.changes[i].table_name = "patients"
                        /\ result.changes[i].record_id = 1
    /\ result.changes[2].operation = "DELETE"
    /\ result.changes[3].operation = "INSERT"
    /\ result.outcomes = <<"synced", "deleted", "synced">>
    /\ <<SchedulerTenant, to_string(1)>> \in TargetKeys(Target, "patients")

\* an exception is raised while event i of changes is processed: anywhere in
\* the handler ("raise"), or by the execute of the load, which is reached
\* for an INSERT or UPDATE whose source row exists ("load")
ExceptionRaised(h, change, fault) ==
    \/ fault = "raise"
    \/ /\ fault = "load"
       /\ change.table_name \in {"patients", "encounters"}
       /\ change.operation # "DELETE"
       /\ RowExists(h, change.table_name, change.record_id)

\* what C25 says of one run: one outcome per event read, every event in
\* whose processing an exception was raised counted in errors and not in
\* synced, every event counted once, and the statistics returned with the
\* last event's change_id
ExceptionsContained(run, changes, h, faults) ==
    LET n == Len(changes)
        failed == {i \in 1..n : run.outcomes[i] \notin {"synced", "deleted"}}
    IN /\ Len(run.outcomes) = n
       /\ \A i \in 1..n : ExceptionRaised(h, changes[i], faults[i]) => i \in failed
       /\ run.stats.errors = Cardinality(failed)
       /\ run.stats.synced + run.stats.errors = n
       /\ n > 0 => run.stats.last_change_id = changes[n].change_id

\* C25: in a run of incremental sync an exception raised while deleting,
\* re-fetching, mapping or loading one event never leaves the run: whatever
\* exceptions are raised in the call just made, the event is counted once in
\* errors, every later event is still dispatched and the statistics are
\* returned.
C25_EventExceptionsAreCountedAsErrors ==
    [][result' # result =>
         \A tenant_id \in Tenants :
            \A faults \in FaultSeqs(Len(result'.changes)) :
               ExceptionsContained(
                   sync_incremental(Target, hospital, data_change_log,
                                    tenant_id, result'.since, faults),
                   result'.changes, hospital, faults)]_vars

\* C26: an INSERT or UPDATE event is synced from the source row as it is
\* when the event is processed: after a run, the target row of every
\* encounter with a synced event (and no later DELETE) equals the mapping of
\* the current source row, so it holds the latest state of a burst of updates
\* and no captured or intermediate state.
C26_SyncedRowIsCurrentSourceRow ==
    [][result' # result =>
         LET r == result'
         IN \A i \in 1..Len(r.changes) :
               (/\ r.changes[i].table_name = "encounters"
                /\ r.outcomes[i] = "synced"
                /\ \A j \in SameRecord(r, i) : r.outcomes[j] # "deleted")
               => \A row \in fhir_encounter' :
                     (/\ row.tenant_id = SchedulerTenant
                      /\ row.source_encounter_id = to_string(r.changes[i].record_id))
                     => row = MappedEncounter(hospital, SchedulerTenant,
                                              r.changes[i].record_id)]_vars

\* C27: what is counted as synced or loaded was applied to the target store:
\* after a run of incremental sync the target holds the record of every
\* INSERT or UPDATE event counted as synced (no DELETE of the record being
\* carried out in the run), and after a full sync it holds as many of the
\* extracted encounters as encounters.loaded counts.
C27_CountedMeansApplied ==
    [][/\ result' # result =>
            LET r == result'
            IN \A i \in 1..Len(r.changes) :
                  (/\ r.outcomes[i] = "synced"
                   /\ \A j \in SameRecord(r, i) : r.outcomes[j] # "deleted")
                  => <<SchedulerTenant, to_string(r.changes[i].record_id)>>
                        \in TargetKeys(Target', r.changes[i].table_name)
       /\ full' # full =>
            full'.stats.encounters.loaded
               <= Cardinality({i \in full'.extracted.encounters :
                                  <<full'.tenant_id, to_string(i)>>
                                     \in TargetKeys(Target', "encounters")})]_vars

\* the execute of a record of the batch failed: the batch's transaction is
\* aborted and its commit writes nothing
BatchAborted(f, tbl) == \E x \in f.failed[tbl] : x[2] = "execute"

\* the records of a batch of f that were given no fault
Unfailed(f, tbl) == f.extracted[tbl] \ {x[1] : x \in f.failed[tbl]}

\* C28: each load batch of a full sync is atomic and independent of the
\* batch before it: a batch whose transaction fails midway leaves the target
\* table as it was before the batch, and when the encounter batch fails the
\* patients committed by the patient batch of the same run are in the target
\* store.
C28_LoadBatchIsAtomic ==
    [][full' # full =>
         LET f == full'
         IN /\ BatchAborted(f, "patients") => fhir_patient' = fhir_patient
            /\ BatchAborted(f, "encounters") =>
                  /\ fhir_encounter' = fhir_encounter
                  /\ ~ BatchAborted(f, "patients") =>
                        \A i \in Unfailed(f, "patients") :
                           <<f.tenant_id, to_string(i)>>
                              \in TargetKeys(Target', "patients")]_vars

\* C28 witness: a full sync loaded its patients into an empty store, executed
\* its first encounter and failed on a later one; the patients are in the
\* target store and no encounter is.
C28_Witness ==
    /\ full.calls = 1
    /\ BatchAborted(full, "encounters")
    /\ full.stats.encounters.loaded >= 1
    /\ full.stats.patients.loaded = MaxPatients
    /\ Cardinality(fhir_patient) = MaxPatients
    /\ fhir_encounter = {}

\* the extracted encounters of the full sync f whose patient was extracted in
\* the same run
WithExtractedPatient(f) ==
    {e \in f.extracted.encounters : f.source["encounters"][e] \in f.extracted.patients}

\* C29: a full sync commits its patient upserts before it loads the first
\* encounter: after a full sync in which no record fails, every extracted
\* encounter whose patient was extracted and loaded in the same run has its
\* patient in the target store and is itself in the target store.
C29_PatientsBeforeEncounters ==
    [][full' # full =>
         \A e \in WithExtractedPatient(full') :
            /\ <<full'.tenant_id, to_string(hospital["encounters"][e])>>
                  \in TargetKeys(Target', "patients")
            /\ <<full'.tenant_id, to_string(e)>>
                  \in TargetKeys(Target', "encounters")]_vars

\* C29 witness: the first full sync, into an empty target store and with
\* limit 1, extracted one patient and an encounter of that patient; the
\* encounter is in the target store with its patient.
C29_Witness ==
    /\ full.calls = 1
    /\ full.limit = 1
    /\ WithExtractedPatient(full) # {}
    /\ \A e \in WithExtractedPatient(full) :
          [tenant_id |-> full.tenant_id, source_encounter_id |-> to_string(e),
           patient_id |-> to_string(full.source["encounters"][e])] \in fhir_encounter
    /\ Cardinality(fhir_patient) = 1

\* the number of rows of a source table
NumRows(h, tbl) == Cardinality({i \in Ids(tbl) : h[tbl][i] # 0})

\* C30: for every integer limit >= 0 given to a full sync, limit 0 included,
\* at most limit rows are extracted per entity type; all rows are extracted
\* when no limit is given.
C30_ExtractedAtMostLimit ==
    [][full' # full =>
         \A tbl \in {"patients", "encounters"} :
            IF full'.limit = None
            THEN full'.stats[tbl].extracted = NumRows(hospital, tbl)
            ELSE full'.stats[tbl].extracted <= full'.limit]_vars

\* the nodes of document d below path p
Below(d, p) == {n \in d : IsPrefix(p, n.path) /\ Len(n.path) > Len(p)}

\* in document d the list at path p has exactly the elements 0..n, the
\* elements before n being empty objects
GrownTo(d, p, n) ==
    /\ Node(p, "list", NullValue) \in d
    /\ {m.path : m \in {o \in Below(d, p) : Len(o.path) = Len(p) + 1}}
          = {Append(p, IndexPart(j)) : j \in 0..n}

\* C31: writing a value at "x[n].y" into a document that has no x yields x
\* as an array of exactly n+1 elements, the elements 0..n-1 empty objects and
\* element n the object {y: value}; writing at "x[n]" grows x to n+1 elements
\* and stores the value at index n.  Nothing else of the document changes.
C31_ArrayGrowsToIndex ==
    [][(/\ nested' # nested
        /\ nested'.value.v # Null
        /\ ~ Has(nested'.obj, <<KeyPart("x")>>))
       => LET d == nested'.result
              x == <<KeyPart("x")>>
              n == nested'.path[2].index
              at == Append(x, IndexPart(n))
          IN /\ ~ nested'.raised
             /\ d \ ({Node(x, "list", NullValue)} \cup Below(d, x)) = nested'.obj
             /\ GrownTo(d, x, n)
             /\ IF Len(nested'.path) = 3
                THEN /\ \A j \in 0..(n - 1) :
                           /\ Node(Append(x, IndexPart(j)), "dict", NullValue) \in d
                           /\ Below(d, Append(x, IndexPart(j))) = {}
                     /\ Node(at, "dict", NullValue) \in d
                     /\ Below(d, at) = {Node(Append(at, KeyPart("y")), "value",
                                             nested'.value)}
                ELSE /\ Node(at, "value", nested'.value) \in d
                     /\ Below(d, at) = {}]_vars

\* C31 witness: "x[MaxIndex].y" was written into a new resource: x has
\* MaxIndex + 1 elements, the last one {y: value}, the others empty objects.
C31_Witness ==
    /\ nested.writes = 1
    /\ nested.obj = NewResource("Patient")
    /\ nested.path = <<KeyPart("x"), IndexPart(MaxIndex), KeyPart("y")>>
    /\ nested.value \in Written
    /\ Cardinality(Below(nested.result, <<KeyPart("x")>>)) = MaxIndex + 2
    /\ Node(nested.path, "value", nested.value) \in nested.result
    /\ \A j \in 0..(MaxIndex - 1) :
          Node(<<KeyPart("x"), IndexPart(j)>>, "dict", NullValue) \in nested.result

\* FHIRMapper.map_record restricted to the field mappings in applied, taken
\* in the order of the configuration from k on
RECURSIVE MapApplied(_, _, _, _, _)
MapApplied(fhir_resource, field_mappings, record, applied, k) ==
    IF k > Len(field_mappings) THEN fhir_resource
    ELSE LET field_mapping == field_mappings[k]
             transformed_value == apply_transformation(record[field_mapping.source_field],
                                                       field_mapping.transformation)
         IN MapApplied(IF k \in applied
                       THEN set_nested_value(fhir_resource, field_mapping.target_path,
                                             transformed_value)
                       ELSE fhir_resource,
                       field_mappings, record, applied, k + 1)

\* C32: field mappings whose target paths share a prefix write into the same
\* node: whatever the order in which field mappings were applied, every value
\* written is in the document under its path, every path names one node, and
\* the document is the one the order of the configuration gives; after all
\* field mappings it is map_record's document.
C32_SharedPrefixesMerge ==
    /\ \A k \in nested.applied :
          LET field_mapping == PATIENT_MAPPING[k]
              value == apply_transformation(nested.record[field_mapping.source_field],
                                            field_mapping.transformation)
          IN value.v # Null =>
                Node(field_mapping.target_path, "value", value) \in nested.result
    /\ \A n, m \in nested.result : n.path = m.path => n = m
    /\ nested.applied # {} =>
          nested.result = MapApplied(NewResource("Patient"), PATIENT_MAPPING,
                                     nested.record, nested.applied, 1)
    /\ nested.applied = DOMAIN PATIENT_MAPPING =>
          nested.result = map_record("Patient", PATIENT_MAPPING, nested.record)

\* C32 witness: every field mapping has been applied to a row with every
\* column set, the mapping of patient_id (the first of the configuration)
\* last; name[0] holds given[0] and family.
C32_Witness ==
    /\ nested.applied = DOMAIN PATIENT_MAPPING
    /\ \A f \in SourceFields : nested.record[f] # Null
    /\ nested.path = <<KeyPart("id")>>
    /\ \E n \in nested.result :
          n.path = <<KeyPart("name"), IndexPart(0), KeyPart("given"), IndexPart(0)>>
    /\ \E n \in nested.result :
          n.path = <<KeyPart("name"), IndexPart(0), KeyPart("family")>>
    /\ LenOf(nested.result, <<KeyPart("name")>>) = 1

\* C33: for every transformation name that is not one of the registry's
\* transformations, apply_transformation returns the value it was given and
\* does not raise.
C33_UnknownNamePassesThrough ==
    (transform.result # NoResult /\ transform.transformation \notin RegistryNames)
    => transform.result = Unchanged(transform.value)

\* C34: across consecutive runs of incremental sync, each given the
\* last_change_id of the run before it, every event of the log is dispatched
\* by exactly one run, whatever is appended between the runs: a run
\* dispatches each event above its cursor once, and every event of the log at
\* or below the cursor after a step was at or below it before the step
\* (dispatched by an earlier run) or is dispatched by the run of the step.
C34_EveryEventDispatchedOnce ==
    [][/\ result' # result =>
            /\ result'.since = last_sync_id
            /\ ChangeIds(result'.changes) = NewerIds(data_change_log, last_sync_id)
            /\ Cardinality(ChangeIds(result'.changes)) = Len(result'.changes)
            /\ last_sync_id' = result'.stats.last_change_id
       /\ \A e \in data_change_log' :
             e.change_id <= last_sync_id' =>
                \/ e \in data_change_log /\ e.change_id <= last_sync_id
                \/ result' # result /\ e.change_id \in ChangeIds(result'.changes)]_vars


\* C35: a sync run for a tenant (a full sync, or an incremental sync with its
\* INSERT, UPDATE and DELETE events) leaves every target record of every other
\* tenant as it was, also when the other tenant holds the same source ids.
OtherTenants(T, tenant_id) ==
    [patient |-> {r \in T.patient : r.tenant_id # tenant_id},
     encounter |-> {r \in T.encounter : r.tenant_id # tenant_id}]

C35_OtherTenantsUntouched ==
    [][\A tenant_id \in TenantIds :
          SyncRun(tenant_id) =>
             OtherTenants(Target', tenant_id) = OtherTenants(Target, tenant_id)]_vars

\* tenant 2 holds patient 1 from its full sync, and a DELETE event of patient 1
\* was synced after it: the run was tenant 1's, or tenant 2's row would be gone
C35_Witness ==
    /\ \E k \in 1..Len(result.changes) :
          /\ result.changes[k].table_name = "patients"
          /\ result.changes[k].operation = "DELETE"
          /\ result.changes[k].record_id = 1
          /\ result.outcomes[k] = "deleted"
    /\ full.calls > 0 /\ full.tenant_id = 2
    /\ [tenant_id |-> 2, source_patient_id |-> to_string(1)] \in fhir_patient


\* C36: an event for a table with no sync handler (lab_results, medications)
\* changes nothing in the target store, is counted in by_table and
\* by_operation and once in errors, and the cursor advances past it, so that no
\* later run of the driver reads it again.
NoHandler(changes) ==
    {k \in 1..Len(changes) : changes[k].table_name \notin {"patients", "encounters"}}

Handled(changes, tbl) ==
    {to_string(changes[k].record_id) :
        k \in {j \in 1..Len(changes) : changes[j].table_name = tbl}}

C36_UnhandledEventIsCountedAndPassed ==
    [][/\ result' # result =>
            LET changes == result'.changes
                stats == result'.stats
            IN /\ \A tbl \in Tables :
                     stats.by_table[tbl]
                        = Cardinality({k \in 1..Len(changes) : changes[k].table_name = tbl})
               /\ \A op \in Operations :
                     stats.by_operation[op]
                        = Cardinality({k \in 1..Len(changes) : changes[k].operation = op})
               /\ stats.synced + stats.errors = Len(changes)
               /\ stats.synced <= Len(changes) - Cardinality(NoHandler(changes))
               /\ \A r \in (fhir_patient' \ fhir_patient) \cup (fhir_patient \ fhir_patient') :
                     r.source_patient_id \in Handled(changes, "patients")
               /\ \A r \in (fhir_encounter' \ fhir_encounter)
                             \cup (fhir_encounter \ fhir_encounter') :
                     r.source_encounter_id \in Handled(changes, "encounters")
               /\ NoHandler(changes) = DOMAIN changes
                     => Target' = Target /\ stats.errors = Len(changes)
               /\ result'.since = last_sync_id
               /\ \A k \in 1..Len(changes) :
                     /\ last_sync_id \notin {None, 0} => changes[k].change_id > last_sync_id
                     /\ changes[k].change_id <= last_sync_id'
       /\ last_sync_id # None /\ last_sync_id' # None /\ last_sync_id' >= last_sync_id]_vars

\* a run counted an event of lab_results as an error, and the run after it
\* read the events above it and not this one
C36_Witness ==
    /\ sched_stats.total_runs = 2
    /\ result.changes # <<>>
    /\ \E e \in data_change_log :
          /\ e.table_name = "lab_results"
          /\ e.change_id <= result.since
          /\ e.change_id \notin ChangeIds(result.changes)


\* C37: the scheduler never executes two _run_sync calls at the same time: the
\* initial run of start() and the runs of the background thread do not
\* overlap, so no two runs in progress have read from the same cursor value.
C37_RunsNeverOverlap ==
    /\ Cardinality(InProgress) <= 1
    /\ \A a, b \in InProgress : a # b => thread[a].since # thread[b].since


IsSuffix(a, b) ==
    Len(a) <= Len(b) /\ a = SubSeq(b, Len(b) - Len(a) + 1, Len(b))

C39_HistoryHoldsLatestRuns ==
    [][LET h == sync_state.sync_history
           g == sync_state'.sync_history
       IN /\ Idle' =>
                /\ Len(g) <= HistoryLimit
                /\ Len(g) = Min({sync_state'.total_syncs, HistoryLimit})
                /\ \A i, j \in 1..Len(g) : i < j => g[i].completed_at < g[j].completed_at
                /\ g # <<>> => g[Len(g)].started_at = sync_state'.last_sync_time
          /\ g # h =>
                \/ g = <<>> /\ sync_state'.total_syncs = 0
                \/ /\ g = Append(h, g[Len(g)])
                   /\ g[Len(g)].started_at = clock
                   /\ g[Len(g)].type = caller["c1"].type
                   /\ sync_state'.total_syncs = sync_state.total_syncs
                \/ /\ IsSuffix(g, h) /\ Len(g) = HistoryLimit
                   /\ sync_state'.total_syncs = sync_state.total_syncs
          /\ sync_state'.total_syncs # sync_state.total_syncs =>
                \/ g = <<>> /\ sync_state'.total_syncs = 0
                \/ /\ sync_state'.total_syncs = sync_state.total_syncs + 1
                   /\ caller["c1"].pc = "record" /\ caller'["c1"].pc = "append"
                   /\ g = h]_vars

\* eleven runs of both types have completed since the last reset, and the
\* entry of the oldest of them has been dropped
C39_Witness ==
    /\ Idle
    /\ sync_state.total_syncs = HistoryLimit + 1
    /\ Len(sync_state.sync_history) = HistoryLimit
    /\ sync_state.sync_history[1].started_at > 1
    /\ \E i, j \in 1..HistoryLimit :
          /\ sync_state.sync_history[i].type = "full"
          /\ sync_state.sync_history[j].type = "incremental"


\* C40: once the source mutations have stopped, the driver under fair ticks
\* reaches quiescence and stays there: its cursor last_sync_id equals the
\* greatest change_id of the log, and every later run reports total_changes = 0
\* and leaves the cursor and the target store as they are.
Quiescent == last_sync_id = get_last_processed_change_id(data_change_log)

C40_DriverReachesQuiescence ==
    /\ <>[]Quiescent
    /\ [][(Quiescent /\ data_change_log' = data_change_log
              /\ sched_stats'.total_runs = sched_stats.total_runs + 1) =>
             /\ result'.stats.total_changes = 0
             /\ sched_stats'.successful_runs = sched_stats.successful_runs
             /\ last_sync_id' = last_sync_id
             /\ Target' = Target]_vars

\* a run has dispatched the events of the log, and the run after it found
\* nothing to sync
C40_Witness ==
    /\ data_change_log # {}
    /\ Quiescent
    /\ sched_stats.successful_runs >= 1
    /\ sched_stats.total_runs > sched_stats.successful_runs
    /\ result.stats.total_changes = 0
    /\ result.since = last_sync_id

====
